---------------------------- MODULE Spec2Model ----------------------------
(***************************************************************************)
(* Model of the mem-machines log pipeline: the worker service (Pub/Sub     *)
(* push handler, message codec, simulated processing, redaction, Firestore *)
(* adapter) and the message contract of the ingest gateway.                *)
(*                                                                         *)
(* Text is modelled as a sequence of code points (naturals): "a" is 97,    *)
(* "/" is 47.  The texts that are redacted hold code points below 128.     *)
(* Time is counted in ticks of 0.05 s, the default delay per character.    *)
(***************************************************************************)
EXTENDS Integers, Sequences, FiniteSets, TLC

(***************************************************************************)
(* Character classes of Python's re module, restricted to ASCII.           *)
(***************************************************************************)
Digit == 48..57
Upper == 65..90
Lower == 97..122
Alnum == Digit \cup Upper \cup Lower
\* \w
WordChar == Alnum \cup {95}
\* \s
Space == {9, 10, 11, 12, 13, 28, 29, 30, 31, 32}
\* [-.\s]
PhoneSep == {45, 46} \cup Space
\* [A-Za-z0-9._%+-]
EmailLocal == Alnum \cup {46, 95, 37, 43, 45}
\* [A-Za-z0-9.-]
EmailDomain == Alnum \cup {46, 45}
\* [A-Z|a-z]
EmailTld == Upper \cup Lower \cup {124}

\* The replacement text "[REDACTED]".
REDACTED == <<91, 82, 69, 68, 65, 67, 84, 69, 68, 93>>

(***************************************************************************)
(* A regular expression is a sequence of items: a word boundary \b, or a   *)
(* character class repeated between lo and hi times (hi = -1: unbounded),  *)
(* greedy, with backtracking, as in Python's re.                           *)
(***************************************************************************)
B == [k |-> "b", cls |-> {}, lo |-> 0, hi |-> 0]
C(cls, lo, hi) == [k |-> "c", cls |-> cls, lo |-> lo, hi |-> hi]

\* \b at position pos (between s[pos-1] and s[pos])
WordBoundary(s, pos) ==
  LET before == pos > 1 /\ pos - 1 <= Len(s) /\ s[pos - 1] \in WordChar
      after == pos >= 1 /\ pos <= Len(s) /\ s[pos] \in WordChar
  IN before # after

\* the longest run of characters of cls starting at pos, at most limit long
RECURSIVE RunLen(_, _, _, _)
RunLen(s, pos, cls, limit) ==
  IF limit = 0 \/ pos > Len(s) THEN 0
  ELSE IF s[pos] \in cls THEN 1 + RunLen(s, pos + 1, cls, limit - 1)
  ELSE 0

\* MatchFrom: the end (index after the last matched character) of the match
\* of items k.. of pat at pos that Python's backtracking finds first, or 0.
RECURSIVE MatchFrom(_, _, _, _)
RECURSIVE TryCounts(_, _, _, _, _)
MatchFrom(pat, k, s, pos) ==
  IF k > Len(pat) THEN pos
  ELSE IF pat[k].k = "b"
       THEN IF WordBoundary(s, pos) THEN MatchFrom(pat, k + 1, s, pos) ELSE 0
       ELSE LET limit == IF pat[k].hi < 0 THEN Len(s) ELSE pat[k].hi
            IN TryCounts(pat, k, s, pos, RunLen(s, pos, pat[k].cls, limit))
TryCounts(pat, k, s, pos, n) ==
  IF n < pat[k].lo THEN 0
  ELSE LET r == MatchFrom(pat, k + 1, s, pos + n)
       IN IF r # 0 THEN r ELSE TryCounts(pat, k, s, pos, n - 1)

\* re.sub(pat, repl, s): leftmost non-overlapping matches, left to right
RECURSIVE SubFrom(_, _, _, _)
SubFrom(pat, repl, s, pos) ==
  IF pos > Len(s) THEN <<>>
  ELSE LET e == MatchFrom(pat, 1, s, pos)
       IN IF e > pos THEN repl \o SubFrom(pat, repl, s, e)
          ELSE <<s[pos]>> \o SubFrom(pat, repl, s, pos + 1)
re_sub(pat, repl, s) == SubFrom(pat, repl, s, 1)

\* sub in s: sub occurs in s
Contains(s, sub) ==
  \E pos \in 1..(Len(s) - Len(sub) + 1) : SubSeq(s, pos, pos + Len(sub) - 1) = sub

\* \b\d{3}[-.\s]?\d{3}[-.\s]?\d{4}\b
phone_10_pattern ==
  <<B, C(Digit, 3, 3), C(PhoneSep, 0, 1), C(Digit, 3, 3), C(PhoneSep, 0, 1),
    C(Digit, 4, 4), B>>
\* \b\d{3}[-.\s]?\d{4}\b
phone_7_pattern == <<B, C(Digit, 3, 3), C(PhoneSep, 0, 1), C(Digit, 4, 4), B>>
\* \(\d{3}\)\s*\d{3}[-.\s]?\d{4}
phone_parens_pattern ==
  <<C({40}, 1, 1), C(Digit, 3, 3), C({41}, 1, 1), C(Space, 0, -1),
    C(Digit, 3, 3), C(PhoneSep, 0, 1), C(Digit, 4, 4)>>
\* \b[A-Za-z0-9._%+-]+@[A-Za-z0-9.-]+\.[A-Z|a-z]{2,}\b
email_pattern ==
  <<B, C(EmailLocal, 1, -1), C({64}, 1, 1), C(EmailDomain, 1, -1),
    C({46}, 1, 1), C(EmailTld, 2, -1), B>>
\* \b\d{3}-\d{2}-\d{4}\b
ssn_pattern ==
  <<B, C(Digit, 3, 3), C({45}, 1, 1), C(Digit, 2, 2), C({45}, 1, 1),
    C(Digit, 4, 4), B>>

\* redact_sensitive_data: the five passes, in the order of the code
redact_sensitive_data(text) ==
  LET t1 == re_sub(phone_10_pattern, REDACTED, text)
      t2 == re_sub(phone_7_pattern, REDACTED, t1)
      t3 == re_sub(phone_parens_pattern, REDACTED, t2)
      t4 == re_sub(email_pattern, REDACTED, t3)
  IN re_sub(ssn_pattern, REDACTED, t4)

(***************************************************************************)
(* Message codec.  base64.b64decode (non-validating, as decode_data calls  *)
(* it), bytes.decode("utf-8") and json.loads, each computed on the         *)
(* characters.  A result is [ok, v]: ok = FALSE stands for the exception.  *)
(***************************************************************************)
\* the value of a base64 alphabet character, 64 for any other character
B64Index(c) ==
  IF c \in Upper THEN c - 65
  ELSE IF c \in Lower THEN c - 97 + 26
  ELSE IF c \in Digit THEN c - 48 + 52
  ELSE IF c = 43 THEN 62
  ELSE IF c = 47 THEN 63
  ELSE 64

IsB64(c) == B64Index(c) # 64
Min(S) == CHOOSE x \in S : \A y \in S : x <= y
Max(S) == CHOOSE x \in S : \A y \in S : x >= y

\* binascii.a2b_base64, non-strict, written over the whole input instead of
\* as its loop: characters outside the alphabet are skipped; quad_pos at a
\* character is the number of alphabet characters before it, modulo 4; pads
\* counts the "=" since the last alphabet character; the first "=" with
\* quad_pos >= 2 and quad_pos + pads >= 4 ends the input; input that ends
\* without one and with a dangling quad fails.
NAlpha(s, i) == Cardinality({j \in 1..(i - 1) : IsB64(s[j])})
PadsAt(s, i) ==
  LET last == Max({0} \cup {j \in 1..(i - 1) : IsB64(s[j])})
  IN Cardinality({j \in (last + 1)..i : s[j] = 61})
PadStops(s) ==
  {i \in 1..Len(s) : s[i] = 61 /\ NAlpha(s, i) % 4 >= 2
                     /\ (NAlpha(s, i) % 4) + PadsAt(s, i) >= 4}
a2b_base64(s) ==
  LET stop == IF PadStops(s) = {} THEN Len(s) + 1 ELSE Min(PadStops(s))
      sym == SelectSeq(SubSeq(s, 1, stop - 1), IsB64)
      n == Len(sym)
      v(k) == B64Index(sym[k])
      nbytes == (n \div 4) * 3
                + (IF n % 4 = 2 THEN 1 ELSE IF n % 4 = 3 THEN 2 ELSE 0)
      byte(k) ==
        LET g == 4 * ((k - 1) \div 3)
            r == (k - 1) % 3
        IN CASE r = 0 -> v(g + 1) * 4 + (v(g + 2) \div 16)
             [] r = 1 -> (v(g + 2) % 16) * 16 + (v(g + 3) \div 4)
             [] OTHER -> (v(g + 3) % 4) * 64 + v(g + 4)
  IN IF PadStops(s) = {} /\ n % 4 # 0 THEN [ok |-> FALSE, v |-> <<>>]
     ELSE [ok |-> TRUE, v |-> [k \in 1..nbytes |-> byte(k)]]

\* base64.b64decode(str): the str must be ASCII, then a2b_base64
b64decode(data) ==
  IF \E i \in 1..Len(data) : data[i] >= 128
  THEN [ok |-> FALSE, v |-> <<>>]
  ELSE a2b_base64(data)

\* the base64 character of a 6-bit value
B64Char(n) ==
  IF n < 26 THEN 65 + n
  ELSE IF n < 52 THEN 97 + n - 26
  ELSE IF n < 62 THEN 48 + n - 52
  ELSE IF n = 62 THEN 43 ELSE 47

\* base64.b64encode(bytes).decode()
b64encode(bytes) ==
  LET n == Len(bytes)
      at(i) == IF i <= n THEN bytes[i] ELSE 0
      ch(k) ==
        LET g == 3 * ((k - 1) \div 4)
            r == (k - 1) % 4
        IN CASE r = 0 -> B64Char(at(g + 1) \div 4)
             [] r = 1 -> B64Char((at(g + 1) % 4) * 16 + (at(g + 2) \div 16))
             [] r = 2 -> IF g + 2 > n THEN 61
                         ELSE B64Char((at(g + 2) % 16) * 4 + (at(g + 3) \div 64))
             [] OTHER -> IF g + 3 > n THEN 61 ELSE B64Char(at(g + 3) % 64)
  IN [k \in 1..(4 * ((n + 2) \div 3)) |-> ch(k)]

IsCont(b) == b \in 128..191
\* the length of the UTF-8 sequence a lead byte starts, 0 for no lead byte
Utf8Len(b) ==
  IF b < 128 THEN 1 ELSE IF b \in 194..223 THEN 2
  ELSE IF b \in 224..239 THEN 3 ELSE IF b \in 240..244 THEN 4 ELSE 0
\* the code point of the sequence that starts at i
Utf8Cp(bytes, i) ==
  LET b == bytes[i]
      c(j) == bytes[i + j] - 128
  IN CASE Utf8Len(b) = 2 -> (b - 192) * 64 + c(1)
       [] Utf8Len(b) = 3 -> (b - 224) * 4096 + c(1) * 64 + c(2)
       [] Utf8Len(b) = 4 -> (b - 240) * 262144 + c(1) * 4096 + c(2) * 64 + c(3)
       [] OTHER -> b
\* whether a well-formed sequence starts at i: the continuation bytes are
\* there, and the code point is neither overlong, a surrogate nor too large
Utf8Ok(bytes, i) ==
  LET len == Utf8Len(bytes[i])
  IN /\ len # 0
     /\ i + len - 1 <= Len(bytes)
     /\ \A j \in (i + 1)..(i + len - 1) : IsCont(bytes[j])
     /\ i + len <= Len(bytes) => ~IsCont(bytes[i + len])
     /\ len = 3 => Utf8Cp(bytes, i) >= 2048 /\ Utf8Cp(bytes, i) \notin 55296..57343
     /\ len = 4 => Utf8Cp(bytes, i) \in 65536..1114111

\* bytes.decode("utf-8"), strict: the sequences start at the bytes that are
\* not continuation bytes
utf8_decode(bytes) ==
  LET idx == [i \in 1..Len(bytes) |-> i]
      NotCont(i) == ~IsCont(bytes[i])
      starts == SelectSeq(idx, NotCont)
  IN IF /\ Len(bytes) > 0 => ~IsCont(bytes[1])
        /\ \A k \in 1..Len(starts) : Utf8Ok(bytes, starts[k])
     THEN [ok |-> TRUE, v |-> [k \in 1..Len(starts) |-> Utf8Cp(bytes, starts[k])]]
     ELSE [ok |-> FALSE, v |-> <<>>]

\* the UTF-8 bytes of one code point
Utf8Bytes(cp) ==
  IF cp < 128 THEN <<cp>>
  ELSE IF cp < 2048 THEN <<192 + (cp \div 64), 128 + (cp % 64)>>
  ELSE IF cp < 65536
  THEN <<224 + (cp \div 4096), 128 + ((cp \div 64) % 64), 128 + (cp % 64)>>
  ELSE <<240 + (cp \div 262144), 128 + ((cp \div 4096) % 64),
         128 + ((cp \div 64) % 64), 128 + (cp % 64)>>

\* str.encode(): UTF-8, of the characters lo..hi of s
RECURSIVE Utf8Range(_, _, _)
Utf8Range(s, lo, hi) ==
  IF lo > hi THEN <<>>
  ELSE IF lo = hi THEN Utf8Bytes(s[lo])
  ELSE Utf8Range(s, lo, (lo + hi) \div 2) \o Utf8Range(s, (lo + hi) \div 2 + 1, hi)
utf8_encode(s) == Utf8Range(s, 1, Len(s))

(***************************************************************************)
(* JSON.  A value is [t, s, items]: t is "str", "num", "lit", "arr" or     *)
(* "obj"; s the text of a string, number or literal; items the elements    *)
(* [k, v] of an array (k empty) or the members of an object, in order.     *)
(* A parse result is [ok, v, i], i the index after the value.              *)
(***************************************************************************)
JStr(s) == [t |-> "str", s |-> s, items |-> <<>>]
JNum(s) == [t |-> "num", s |-> s, items |-> <<>>]
JLit(s) == [t |-> "lit", s |-> s, items |-> <<>>]
JArr(items) == [t |-> "arr", s |-> <<>>, items |-> items]
JObj(items) == [t |-> "obj", s |-> <<>>, items |-> items]
JFail == [ok |-> FALSE, v |-> JLit(<<>>), i |-> 0]
JOk(v, i) == [ok |-> TRUE, v |-> v, i |-> i]

JsonWs == {32, 9, 10, 13}
HexDigits == Digit \cup (65..70) \cup (97..102)
HexVal(c) == IF c \in Digit THEN c - 48 ELSE IF c \in 65..70 THEN c - 55 ELSE c - 87
HexChar(n) == IF n < 10 THEN 48 + n ELSE 97 + n - 10
\* the character an escape letter stands for: \" \\ \/ \b \f \n \r \t
Unescape(c) ==
  CASE c = 34 -> 34 [] c = 92 -> 92 [] c = 47 -> 47 [] c = 98 -> 8
    [] c = 102 -> 12 [] c = 110 -> 10 [] c = 114 -> 13 [] OTHER -> 9
At(s, i, c) == i <= Len(s) /\ s[i] = c

RECURSIVE SkipWs(_, _)
SkipWs(s, i) == IF i <= Len(s) /\ s[i] \in JsonWs THEN SkipWs(s, i + 1) ELSE i

\* the body of a string, from the character after the opening quote
RECURSIVE ParseStr(_, _, _)
ParseStr(s, i, acc) ==
  IF i > Len(s) THEN JFail
  ELSE IF s[i] = 34 THEN JOk(JStr(acc), i + 1)
  ELSE IF s[i] = 92
  THEN IF i + 1 > Len(s) THEN JFail
       ELSE IF s[i + 1] \in {34, 92, 47, 98, 102, 110, 114, 116}
       THEN ParseStr(s, i + 2, Append(acc, Unescape(s[i + 1])))
       ELSE IF s[i + 1] = 117 /\ i + 5 <= Len(s)
               /\ \A j \in (i + 2)..(i + 5) : s[j] \in HexDigits
       THEN ParseStr(s, i + 6,
                     Append(acc, HexVal(s[i + 2]) * 4096 + HexVal(s[i + 3]) * 256
                                 + HexVal(s[i + 4]) * 16 + HexVal(s[i + 5])))
       ELSE JFail
  ELSE IF s[i] < 32 THEN JFail
  ELSE ParseStr(s, i + 1, Append(acc, s[i]))

\* a number: -? (0 | [1-9][0-9]*) (. [0-9]+)? ([eE] [+-]? [0-9]+)?
ParseNum(s, i) ==
  LET a == IF At(s, i, 45) THEN i + 1 ELSE i
      n == RunLen(s, a, Digit, Len(s))
      b == IF At(s, a, 48) THEN a + 1 ELSE a + n
      f == IF At(s, b, 46) THEN RunLen(s, b + 1, Digit, Len(s)) ELSE 0
      c == IF f > 0 THEN b + 1 + f ELSE b
      x == IF c <= Len(s) /\ s[c] \in {101, 69}
           THEN IF c + 1 <= Len(s) /\ s[c + 1] \in {43, 45} THEN c + 2 ELSE c + 1
           ELSE c
      e == IF x > c THEN RunLen(s, x, Digit, Len(s)) ELSE 0
      d == IF e > 0 THEN x + e ELSE c
  IN IF n = 0 THEN JFail ELSE JOk(JNum(SubSeq(s, i, d - 1)), d)

ParseLit(s, i, word) ==
  IF i + Len(word) - 1 <= Len(s) /\ SubSeq(s, i, i + Len(word) - 1) = word
  THEN JOk(JLit(word), i + Len(word)) ELSE JFail

RECURSIVE ParseValue(_, _)
RECURSIVE ParseElems(_, _, _)
RECURSIVE ParseMembers(_, _, _)
ParseValue(s, i) ==
  IF i > Len(s) THEN JFail
  ELSE IF s[i] = 34 THEN ParseStr(s, i + 1, <<>>)
  ELSE IF s[i] = 123
  THEN IF At(s, SkipWs(s, i + 1), 125)
       THEN JOk(JObj(<<>>), SkipWs(s, i + 1) + 1)
       ELSE ParseMembers(s, SkipWs(s, i + 1), <<>>)
  ELSE IF s[i] = 91
  THEN IF At(s, SkipWs(s, i + 1), 93)
       THEN JOk(JArr(<<>>), SkipWs(s, i + 1) + 1)
       ELSE ParseElems(s, SkipWs(s, i + 1), <<>>)
  ELSE IF s[i] \in Digit \cup {45} THEN ParseNum(s, i)
  ELSE IF s[i] = 116 THEN ParseLit(s, i, <<116, 114, 117, 101>>)
  ELSE IF s[i] = 102 THEN ParseLit(s, i, <<102, 97, 108, 115, 101>>)
  ELSE IF s[i] = 110 THEN ParseLit(s, i, <<110, 117, 108, 108>>)
  ELSE JFail
ParseElems(s, i, acc) ==
  LET r == ParseValue(s, i)
      j == SkipWs(s, r.i)
      got == Append(acc, [k |-> <<>>, v |-> r.v])
  IN IF ~r.ok THEN JFail
     ELSE IF At(s, j, 93) THEN JOk(JArr(got), j + 1)
     ELSE IF At(s, j, 44) THEN ParseElems(s, SkipWs(s, j + 1), got)
     ELSE JFail
ParseMembers(s, i, acc) ==
  LET key == IF At(s, i, 34) THEN ParseStr(s, i + 1, <<>>) ELSE JFail
      c == SkipWs(s, key.i)
      r == IF key.ok /\ At(s, c, 58) THEN ParseValue(s, SkipWs(s, c + 1)) ELSE JFail
      j == SkipWs(s, r.i)
      got == Append(acc, [k |-> key.v.s, v |-> r.v])
  IN IF ~r.ok THEN JFail
     ELSE IF At(s, j, 125) THEN JOk(JObj(got), j + 1)
     ELSE IF At(s, j, 44) THEN ParseMembers(s, SkipWs(s, j + 1), got)
     ELSE JFail

\* json.loads(str): one value, surrounded by whitespace only
json_loads(s) ==
  LET r == ParseValue(s, SkipWs(s, 1))
  IN IF r.ok /\ SkipWs(s, r.i) = Len(s) + 1 THEN [ok |-> TRUE, v |-> r.v]
     ELSE [ok |-> FALSE, v |-> JLit(<<>>)]

\* one character of a string as json.dumps (ensure_ascii) writes it
EscapeChar(c) ==
  CASE c = 34 -> <<92, 34>> [] c = 92 -> <<92, 92>>
    [] c = 10 -> <<92, 110>> [] c = 13 -> <<92, 114>>
    [] c = 9 -> <<92, 116>> [] c = 8 -> <<92, 98>>
    [] c = 12 -> <<92, 102>>
    [] c < 32 \/ c > 127 ->
         <<92, 117, HexChar(c \div 4096), HexChar((c \div 256) % 16),
           HexChar((c \div 16) % 16), HexChar(c % 16)>>
    [] OTHER -> <<c>>
RECURSIVE EscapeRange(_, _, _)
EscapeRange(s, lo, hi) ==
  IF lo > hi THEN <<>>
  ELSE IF lo = hi THEN EscapeChar(s[lo])
  ELSE EscapeRange(s, lo, (lo + hi) \div 2) \o EscapeRange(s, (lo + hi) \div 2 + 1, hi)
EscapeStr(s) == EscapeRange(s, 1, Len(s))
Quoted(s) == <<34>> \o EscapeStr(s) \o <<34>>

\* json.dumps of a dict of strings, given as its items [k, v] in order
RECURSIVE DumpItems(_)
DumpItems(items) ==
  IF Len(items) = 0 THEN <<>>
  ELSE Quoted(items[1].k) \o <<58, 32>> \o Quoted(items[1].v)
       \o (IF Len(items) > 1 THEN <<44, 32>> ELSE <<>>) \o DumpItems(Tail(items))
json_dumps(items) == <<123>> \o DumpItems(items) \o <<125>>

(***************************************************************************)
(* Worker: the Pub/Sub push message and the internal message.              *)
(***************************************************************************)
\* "tenant_id", "log_id", "text", "source", "ingested_at"
K_tenant_id == <<116, 101, 110, 97, 110, 116, 95, 105, 100>>
K_log_id == <<108, 111, 103, 95, 105, 100>>
K_text == <<116, 101, 120, 116>>
K_source == <<115, 111, 117, 114, 99, 101>>
K_ingested_at == <<105, 110, 103, 101, 115, 116, 101, 100, 95, 97, 116>>

\* PubSubMessage.decode_data: base64, then UTF-8, then JSON; any failure is
\* the ValueError
decode_data(data) ==
  LET b == b64decode(data)
      u == IF b.ok THEN utf8_decode(b.v) ELSE [ok |-> FALSE, v |-> <<>>]
  IN IF u.ok THEN json_loads(u.v) ELSE [ok |-> FALSE, v |-> JLit(<<>>)]

\* dict lookup on the members of a JSON object: the last member named key wins
RECURSIVE Lookup(_, _, _)
Lookup(items, key, n) ==
  IF n = 0 THEN [present |-> FALSE, v |-> JLit(<<>>)]
  ELSE IF items[n].k = key THEN [present |-> TRUE, v |-> items[n].v]
  ELSE Lookup(items, key, n - 1)
Member(obj, key) == Lookup(obj.items, key, Len(obj.items))
IsStrField(obj, key) == Member(obj, key).present /\ Member(obj, key).v.t = "str"

NoMessage ==
  [tenant_id |-> <<>>, log_id |-> <<>>, text |-> <<>>, source |-> <<>>,
   ingested_at |-> <<>>]

\* InternalMessage(**data): data must be a mapping, and the five fields
\* must be present and strings; nothing else is validated
InternalMessage(data) ==
  IF data.t = "obj"
     /\ \A key \in {K_tenant_id, K_log_id, K_text, K_source, K_ingested_at} :
          IsStrField(data, key)
  THEN [ok |-> TRUE,
        v |-> [tenant_id |-> Member(data, K_tenant_id).v.s,
               log_id |-> Member(data, K_log_id).v.s,
               text |-> Member(data, K_text).v.s,
               source |-> Member(data, K_source).v.s,
               ingested_at |-> Member(data, K_ingested_at).v.s]]
  ELSE [ok |-> FALSE, v |-> NoMessage]

\* the decode step of process_message: decode_data, then InternalMessage
Decode(data) ==
  CHOOSE r \in {IF d.ok THEN InternalMessage(d.v)
                        ELSE [ok |-> FALSE, v |-> NoMessage] :
                  d \in {decode_data(data)}} : TRUE

(***************************************************************************)
(* Worker: processing, the stored document and the Firestore adapter.      *)
(***************************************************************************)
\* Settings.processing_delay_per_char: 0.05 s, one tick
processing_delay_per_char == 1

\* the argument None of LogProcessor(delay_per_char=None)
None == [none |-> TRUE, v |-> 0]
\* get_settings(): the settings, as far as the processor reads them
Settings(delay) == [processing_delay_per_char |-> delay]
\* LogProcessor.__init__ under given settings: delay_per_char or
\* settings.processing_delay_per_char ("or" takes the right side when the
\* left one is None or 0)
LogProcessor_init(settings, delay_per_char) ==
  [delay_per_char |->
     IF delay_per_char.none \/ delay_per_char.v = 0
     THEN settings.processing_delay_per_char ELSE delay_per_char.v]
\* LogProcessor(delay_per_char) under the default settings
LogProcessor(delay_per_char) ==
  LogProcessor_init(Settings(processing_delay_per_char), delay_per_char)
\* a variant of processing_time: the time grows with the bytes of the text's
\* JSON form (two more than its characters) instead of its characters
processing_time_quoted(processor, text) ==
  (Len(text) + 2) * processor.delay_per_char
\* LogProcessor.process, up to the sleep: the time to sleep
processing_time(processor, text) == Len(text) * processor.delay_per_char

\* the decimal digits of a natural number
RECURSIVE Decimal(_)
Decimal(n) == IF n < 10 THEN <<48 + n>> ELSE Append(Decimal(n \div 10), 48 + (n % 10))
\* datetime.isoformat(): the time as text (the tick count, in decimal)
isoformat(time) == Decimal(time)

\* a variant of ProcessedLog: the processing time is written into modified_data
ProcessedLog_stamped(source, original_text, modified_data, ingested_at, message_id, time) ==
  [source |-> source, original_text |-> original_text,
   modified_data |-> modified_data \o <<32>> \o isoformat(time),
   processed_at |-> time,
   ingested_at |-> ingested_at, message_id |-> message_id]

\* ProcessedLog(...): processed_at defaults to the time of construction
ProcessedLog(source, original_text, modified_data, ingested_at, message_id, time) ==
  [source |-> source, original_text |-> original_text,
   modified_data |-> modified_data, processed_at |-> time,
   ingested_at |-> ingested_at, message_id |-> message_id]

\* ProcessedLog.to_firestore_dict
to_firestore_dict(processed_log) ==
  [source |-> processed_log.source,
   original_text |-> processed_log.original_text,
   modified_data |-> processed_log.modified_data,
   processed_at |-> isoformat(processed_log.processed_at),
   ingested_at |-> processed_log.ingested_at,
   message_id |-> processed_log.message_id]

\* "tenants", "processed_logs", "/"
TENANTS_COLLECTION == <<116, 101, 110, 97, 110, 116, 115>>
PROCESSED_LOGS_SUBCOLLECTION == <<112, 114, 111, 99, 101, 115, 115, 101, 100, 95, 108, 111, 103, 115>>
Slash == <<47>>
\* a variant of DocPath: one collection for all tenants
DocPath_shared(tenant_id, log_id) ==
  PROCESSED_LOGS_SUBCOLLECTION \o Slash \o log_id

\* the document reference: tenants/{tenant_id}/processed_logs/{log_id}
DocPath(tenant_id, log_id) ==
  TENANTS_COLLECTION \o Slash \o tenant_id \o Slash
  \o PROCESSED_LOGS_SUBCOLLECTION \o Slash \o log_id

\* a variant of DocSet: an existing document keeps what it has, and only the
\* outcome of the processing is written into it
DocUpdate(st, path, data) ==
  IF path \in DOMAIN st
  THEN [st EXCEPT ![path] = [@ EXCEPT !.modified_data = data.modified_data,
                                      !.processed_at = data.processed_at,
                                      !.message_id = data.message_id]]
  ELSE [q \in DOMAIN st \cup {path} |-> IF q = path THEN data ELSE st[q]]

\* a variant of DocSet: create-only, a document that exists is left as it is
DocCreate(st, path, data) ==
  IF path \in DOMAIN st THEN st
  ELSE [q \in DOMAIN st \cup {path} |-> IF q = path THEN data ELSE st[q]]

\* doc_ref.set(data): creates or replaces the whole document at path
DocSet(st, path, data) ==
  [q \in DOMAIN st \cup {path} |-> IF q = path THEN data ELSE st[q]]

\* a variant of save_processed_log: the failure of set() is not reported
save_processed_log_unchecked(st, tenant_id, log_id, processed_log, fault) ==
  [ok |-> TRUE,
   store |-> IF fault THEN st
             ELSE [q \in DOMAIN st \cup {DocPath(tenant_id, log_id)} |->
                     IF q = DocPath(tenant_id, log_id)
                     THEN to_firestore_dict(processed_log) ELSE st[q]]]

\* a variant of save_processed_log: document() without the log_id, so that
\* every write makes a document of its own
save_processed_log_auto_id(st, tenant_id, log_id, processed_log, fault) ==
  IF fault THEN [ok |-> FALSE, store |-> st]
  ELSE [ok |-> TRUE,
        store |-> [q \in DOMAIN st
                        \cup {DocPath(tenant_id, Decimal(Cardinality(DOMAIN st)))} |->
                     IF q \in DOMAIN st THEN st[q]
                     ELSE to_firestore_dict(processed_log)]]

\* a variant of save_processed_log: a set() that raised is called once more,
\* and the second call goes through
save_processed_log_retry(st, tenant_id, log_id, processed_log, fault) ==
  [ok |-> TRUE,
   store |-> DocSet(st, DocPath(tenant_id, log_id),
                    to_firestore_dict(processed_log)),
   attempts |-> IF fault THEN 2 ELSE 1]

\* FirestoreService.save_processed_log: one set() of the converted record;
\* fault = TRUE is set() raising, which surfaces as FirestoreError (ok =
\* FALSE); attempts counts the calls of set()
save_processed_log(st, tenant_id, log_id, processed_log, fault) ==
  IF fault THEN [ok |-> FALSE, store |-> st, attempts |-> 1]
  ELSE [ok |-> TRUE,
        store |-> DocSet(st, DocPath(tenant_id, log_id),
                         to_firestore_dict(processed_log)),
        attempts |-> 1]

NoDoc ==
  [source |-> <<>>, original_text |-> <<>>, modified_data |-> <<>>,
   processed_at |-> <<>>, ingested_at |-> <<>>, message_id |-> ""]
\* a variant of get_processed_log: to_dict() without looking at doc.exists
get_processed_log_unchecked(st, tenant_id, log_id) ==
  [exists |-> TRUE,
   doc |-> IF DocPath(tenant_id, log_id) \in DOMAIN st
           THEN st[DocPath(tenant_id, log_id)] ELSE NoDoc]

\* FirestoreService.get_processed_log: the document, or None (exists = FALSE)
get_processed_log(st, tenant_id, log_id) ==
  IF DocPath(tenant_id, log_id) \in DOMAIN st
  THEN [exists |-> TRUE, doc |-> st[DocPath(tenant_id, log_id)]]
  ELSE [exists |-> FALSE, doc |-> NoDoc]

(***************************************************************************)
(* Worker: the responses of process_message.                               *)
(***************************************************************************)
NoResponse == [code |-> 0, body |-> [detail |-> ""]]
\* a variant of DecodeFailureResponse: the decode failure is raised as
\* the other failures are
DecodeFailureRaised(message_id) ==
  [code |-> 500, body |-> [detail |-> "Failed to decode message"]]

\* routes.py: the decode failure is answered 200, so that it is acknowledged
DecodeFailureResponse(message_id) ==
  [code |-> 200,
   body |-> [status |-> "error", message_id |-> message_id,
             error |-> "Failed to decode message"]]
\* HTTPException(500, "Processing failed")
ProcessingFailureResponse ==
  [code |-> 500, body |-> [detail |-> "Processing failed"]]
\* HTTPException(500, "Storage failed")
StorageFailureResponse ==
  [code |-> 500, body |-> [detail |-> "Storage failed"]]
\* a variant of SuccessResponse: the two identifiers in each other's place
SuccessResponse_swapped(message_id, tenant_id, log_id) ==
  [code |-> 200,
   body |-> [status |-> "success", message_id |-> message_id,
             tenant_id |-> log_id, log_id |-> tenant_id]]

\* routes.py: the dict returned after the store write
SuccessResponse(message_id, tenant_id, log_id) ==
  [code |-> 200,
   body |-> [status |-> "success", message_id |-> message_id,
             tenant_id |-> tenant_id, log_id |-> log_id]]

(***************************************************************************)
(* The envelopes the transport may hold.  Valid ones are built as the      *)
(* worker's tests build them (create_pubsub_message); the others are the   *)
(* kinds of undecodable data.                                              *)
(***************************************************************************)
\* "a", "b", "a/processed_logs/x"
TenantA == <<97>>
TenantB == <<98>>
TenantAX == <<97, 47, 112, 114, 111, 99, 101, 115, 115, 101, 100, 95, 108, 111, 103, 115, 47, 120>>
\* "1", "x/processed_logs/y", "y"
LogOne == <<49>>
LogXY == <<120, 47, 112, 114, 111, 99, 101, 115, 115, 101, 100, 95, 108, 111, 103, 115, 47, 121>>
LogY == <<121>>
\* "555-0199", "hi"
TextPhone == <<53, 53, 53, 45, 48, 49, 57, 57>>
TextPlain == <<104, 105>>
\* "json_upload", "text_upload", "2024-01-15T10:00:00Z"
SourceJson == <<106, 115, 111, 110, 95, 117, 112, 108, 111, 97, 100>>
SourceText == <<116, 101, 120, 116, 95, 117, 112, 108, 111, 97, 100>>
IngestedAt == <<50, 48, 50, 52, 45, 48, 49, 45, 49, 53, 84, 49, 48, 58, 48, 48, 58, 48, 48, 90>>

TenantIds == {TenantA, TenantB, TenantAX}
LogIds == {LogOne, LogXY, LogY}

Item(k, v) == [k |-> k, v |-> v]
Payload(tenant_id, log_id, text, source) ==
  <<Item(K_tenant_id, tenant_id), Item(K_log_id, log_id), Item(K_text, text),
    Item(K_source, source), Item(K_ingested_at, IngestedAt)>>
\* create_pubsub_message: base64 of the UTF-8 bytes of json.dumps(data)
create_pubsub_message(data) == b64encode(utf8_encode(json_dumps(data)))

\* "not_valid_base64!!!", the data of the worker's malformed-message test
BadBase64 == <<110, 111, 116, 95, 118, 97, 108, 105, 100, 95, 98, 97, 115, 101, 54, 52, 33, 33, 33>>
\* ["a"]
JsonArray == <<91, 34, 97, 34, 93>>
\* an object whose "text" is the number 5
JsonNumberText ==
  <<123, 34, 116, 101, 110, 97, 110, 116, 95, 105, 100, 34, 58, 32, 34, 97, 34, 44, 32, 34, 108, 111, 103, 95, 105, 100, 34, 58, 32, 34, 49, 34, 44, 32, 34, 116, 101, 120, 116, 34, 58, 32, 53, 44, 32, 34, 115, 111, 117, 114, 99, 101, 34, 58, 32, 34, 106, 115, 111, 110, 95, 117, 112, 108, 111, 97, 100, 34, 44, 32, 34, 105, 110, 103, 101, 115, 116, 101, 100, 95, 97, 116, 34, 58, 32, 34, 116, 34, 125>>

Envelope(message_id, data) == [message_id |-> message_id, data |-> data]
Envelopes ==
  << Envelope("m1", create_pubsub_message(Payload(TenantA, LogOne, TextPhone, SourceJson))),
     \* the same payload published again, under another message id
     Envelope("m2", create_pubsub_message(Payload(TenantA, LogOne, TextPhone, SourceJson))),
     \* another tenant, the same log id
     Envelope("m3", create_pubsub_message(Payload(TenantB, LogOne, TextPlain, SourceText))),
     \* the same key as m1, another text
     Envelope("m4", create_pubsub_message(Payload(TenantA, LogOne, TextPlain, SourceText))),
     \* ids that contain "/"
     Envelope("m5", create_pubsub_message(Payload(TenantA, LogXY, TextPlain, SourceJson))),
     Envelope("m6", create_pubsub_message(Payload(TenantAX, LogY, TextPhone, SourceJson))),
     \* not base64
     Envelope("m7", BadBase64),
     \* base64 of bytes that are not UTF-8
     Envelope("m8", b64encode(<<255, 254>>)),
     \* base64 of JSON cut short
     Envelope("m9", b64encode(utf8_encode(SubSeq(
        json_dumps(Payload(TenantA, LogOne, TextPlain, SourceJson)), 1, 20)))),
     \* base64 of a JSON array
     Envelope("m10", b64encode(utf8_encode(JsonArray))),
     \* base64 of an object without "text"
     Envelope("m11", b64encode(utf8_encode(json_dumps(
        SubSeq(Payload(TenantA, LogOne, TextPlain, SourceJson), 1, 2))))),
     \* base64 of an object whose "text" is a number
     Envelope("m12", b64encode(utf8_encode(JsonNumberText))) >>
EnvIds == 1..Len(Envelopes)

\* what a push request carries besides the data and the message id: the
\* subscription, publishTime and the attributes (None, or a dict of strings)
PushMetas ==
  { [subscription |-> "projects/p/subscriptions/worker", publish_time |-> "",
     attributes |-> "None"],
    [subscription |-> "projects/p/subscriptions/other",
     publish_time |-> "2024-01-15T10:00:01Z", attributes |-> "{'tenant': 'b'}"] }
\* PubSubPushRequest: the message and the subscription
PubSubPushRequest(envelope, meta) ==
  [message |-> [data |-> envelope.data, message_id |-> envelope.message_id,
                publish_time |-> meta.publish_time,
                attributes |-> meta.attributes],
   subscription |-> meta.subscription]
\* the decode step's result for each envelope
Decoded == [e \in EnvIds |-> Decode(Envelopes[e].data)]
\* the texts of the messages
Texts == {TextPhone, TextPlain}
\* LogProcessor.process after the sleep: redact_sensitive_data(text), for
\* each of the texts
Redacted == [text \in Texts |-> redact_sensitive_data(text)]

(***************************************************************************)
(* The worker as a state machine.  The worker runs one asyncio event loop: *)
(* a handler runs without interruption from one await that suspends to the *)
(* next.  process_message suspends once, in asyncio.sleep; the Firestore   *)
(* client's set() is a blocking call inside the coroutine.                 *)
(***************************************************************************)
\* deliveries the worker handles at the same time
MaxInFlight == 2
\* envelopes the transport holds
QueueLen == 2
\* processing and store faults that may occur
MaxFaults == 1
\* deliveries of an envelope that is in flight or already acknowledged
MaxDups == 1

VARIABLES
  queue,       \* transport: the envelopes it holds
  pending,     \* transport: envelopes waiting to be (re)delivered
  acked,       \* transport: envelopes whose delivery was answered 2xx
  dupsLeft,    \* duplicate deliveries the transport may still make
  faultsLeft,  \* faults that may still occur
  now,         \* the clock, in units of processing_delay_per_char
  slots,       \* worker: the deliveries in flight, one per slot
  store,       \* Firestore: document path -> document
  decodedKeys, \* history: the (tenant_id, log_id) of every decoded message
  runs,        \* history: the deliveries answered "success"
  probe        \* the call under examination when one component is run alone

vars ==
  <<queue, pending, acked, dupsLeft, faultsLeft, now, slots, store,
    decodedKeys, runs, probe>>

Slots == 1..MaxInFlight
\* no component is run alone
NoProbe == [op |-> "none"]
NoRecord == ProcessedLog(<<>>, <<>>, <<>>, <<>>, "", 0)
IdleSlot ==
  [pc |-> "idle", env |-> 0, message_id |-> "", msg |-> NoMessage,
   remaining |-> 0, steps |-> <<>>, record |-> NoRecord,
   response |-> NoResponse, expired |-> FALSE]

\* process_message, the decode step failed: the answer
decode_failed(e, message_id) ==
  [IdleSlot EXCEPT !.pc = "done", !.env = e, !.message_id = message_id,
                   !.steps = <<"received", "failed_decode">>,
                   !.response = DecodeFailureResponse(message_id)]

\* process_message from the request to its first suspension: the decode
\* step, then LogProcessor() and process() up to asyncio.sleep
process_message_start(e, message_id, decoded) ==
  IF ~decoded.ok
  THEN decode_failed(e, message_id)
  ELSE [IdleSlot EXCEPT !.pc = "sleeping", !.env = e, !.message_id = message_id,
                        !.msg = decoded.v,
                        !.remaining =
                          processing_time(LogProcessor(None), decoded.v.text),
                        !.steps = <<"received", "decoded">>]

\* a variant of processing_failed: the failure is answered as a decode
\* failure is, so that the message is not sent again
processing_failed_final(slot, st) ==
  [slot |-> [slot EXCEPT !.pc = "done",
                         !.steps = Append(@, "failed_process"),
                         !.response = DecodeFailureResponse(slot.message_id)],
   store |-> st]

\* process_message, the processing step raised
processing_failed(slot, st) ==
  [slot |-> [slot EXCEPT !.pc = "done",
                         !.steps = Append(@, "failed_process"),
                         !.response = ProcessingFailureResponse],
   store |-> st]

\* a variant of store_answer: the outcome of the store write is not looked at
store_answer_unconditional(slot, processed_log, saved) ==
  [slot |-> [slot EXCEPT !.pc = "done",
                         !.steps = @ \o <<"processed", "stored", "acknowledged">>,
                         !.record = processed_log,
                         !.response =
                           SuccessResponse(slot.message_id, slot.msg.tenant_id,
                                           slot.msg.log_id)],
   store |-> saved.store]

\* a variant of store_answer: a failed store write is answered as a decode
\* failure is, 200 with status "error"
store_answer_dropped(slot, processed_log, saved) ==
  [slot |-> [slot EXCEPT !.pc = "done",
                         !.steps = @ \o (IF saved.ok
                                         THEN <<"processed", "stored", "acknowledged">>
                                         ELSE <<"processed", "failed_store">>),
                         !.record = processed_log,
                         !.response =
                           IF saved.ok
                           THEN SuccessResponse(slot.message_id, slot.msg.tenant_id,
                                                slot.msg.log_id)
                           ELSE DecodeFailureResponse(slot.message_id)],
   store |-> saved.store]

\* process_message, the answer to the outcome of the store write
store_answer(slot, processed_log, saved) ==
  IF ~saved.ok
  THEN [slot |-> [slot EXCEPT !.pc = "done",
                              !.steps = @ \o <<"processed", "failed_store">>,
                              !.record = processed_log,
                              !.response = StorageFailureResponse],
        store |-> saved.store]
  ELSE [slot |-> [slot EXCEPT !.pc = "done",
                              !.steps = @ \o <<"processed", "stored",
                                               "acknowledged">>,
                              !.record = processed_log,
                              !.response =
                                SuccessResponse(slot.message_id,
                                                slot.msg.tenant_id,
                                                slot.msg.log_id)],
        store |-> saved.store]

\* a variant of process_and_store: the record's time is taken when the
\* processing starts, before the sleep
process_and_store_early(slot, st, time, store_fault) ==
  LET modified_text == Redacted[slot.msg.text]
      processed_log ==
        ProcessedLog(slot.msg.source, slot.msg.text, modified_text,
                     slot.msg.ingested_at, slot.message_id,
                     time - processing_time(LogProcessor(None), slot.msg.text))
  IN store_answer(slot, processed_log,
                  save_processed_log(st, slot.msg.tenant_id, slot.msg.log_id,
                                     processed_log, store_fault))

\* process_message after the sleep, processing did not raise: redaction,
\* the record (processed_at is the time of its construction), the store write
process_and_store(slot, st, time, store_fault) ==
  LET modified_text == Redacted[slot.msg.text]
      processed_log ==
        ProcessedLog(slot.msg.source, slot.msg.text, modified_text,
                     slot.msg.ingested_at, slot.message_id, time)
  IN store_answer(slot, processed_log,
                  save_processed_log(st, slot.msg.tenant_id, slot.msg.log_id,
                                     processed_log, store_fault))

\* a variant of process_message_resume: a failure of the processing step is
\* passed over and the text is stored as it came
process_message_resume_lenient(slot, st, time, proc_fault, store_fault) ==
  IF proc_fault
  THEN store_answer(slot,
                    ProcessedLog(slot.msg.source, slot.msg.text, slot.msg.text,
                                 slot.msg.ingested_at, slot.message_id, time),
                    save_processed_log(st, slot.msg.tenant_id, slot.msg.log_id,
                                       ProcessedLog(slot.msg.source, slot.msg.text,
                                                    slot.msg.text,
                                                    slot.msg.ingested_at,
                                                    slot.message_id, time),
                                       store_fault))
  ELSE process_and_store(slot, st, time, store_fault)

\* process_message from the wake-up to the response.  proc_fault: process()
\* raises; store_fault: the store write raises.  Gives the slot and the store.
process_message_resume(slot, st, time, proc_fault, store_fault) ==
  IF proc_fault
  THEN processing_failed(slot, st)
  ELSE process_and_store(slot, st, time, store_fault)

IsSuccess(response) ==
  /\ response.code = 200
  /\ "status" \in DOMAIN response.body
  /\ response.body.status = "success"
\* the four fields of a document that do not depend on the delivery
FourFields(got) ==
  [exists |-> got.exists, source |-> got.doc.source,
   original_text |-> got.doc.original_text,
   modified_data |-> got.doc.modified_data,
   ingested_at |-> got.doc.ingested_at]
\* what the history records of a delivery answered "success": the envelope,
\* the time, and the document read back at the message's key
Run(slot, st, time) ==
  [env |-> slot.env, at |-> time,
   four |-> FourFields(get_processed_log(st, slot.msg.tenant_id, slot.msg.log_id))]

Init ==
  /\ queue \in {q \in SUBSET EnvIds : Cardinality(q) = QueueLen}
  /\ pending = queue
  /\ acked = {}
  /\ dupsLeft = MaxDups
  /\ faultsLeft = MaxFaults
  /\ now = 0
  /\ slots = [d \in Slots |-> IdleSlot]
  /\ store = <<>>
  /\ decodedKeys = {}
  /\ runs = {}
  /\ probe = NoProbe

\* The transport pushes envelope e: a first delivery or a redelivery when e
\* is pending, otherwise a duplicate.  Of the request the handler reads the
\* message id and the data (Decoded[e] is the decode step on the data of
\* envelope e); the subscription goes into a log line.  The handler runs to its first
\* suspension, or to its response when the data does not decode.
Push(e) ==
  /\ e \in queue
  /\ e \in pending \/ dupsLeft > 0
  /\ \E d \in Slots, meta \in PushMetas :
       /\ slots[d].pc = "idle"
       /\ \A c \in Slots : c < d => slots[c].pc # "idle"
       /\ LET request == PubSubPushRequest(Envelopes[e], meta)
          IN slots' = [slots EXCEPT ![d] =
               process_message_start(e, request.message.message_id, Decoded[e])]
  /\ pending' = pending \ {e}
  /\ dupsLeft' = IF e \in pending THEN dupsLeft ELSE dupsLeft - 1
  /\ decodedKeys' =
       IF Decoded[e].ok
       THEN decodedKeys \cup {<<Decoded[e].v.tenant_id, Decoded[e].v.log_id>>}
       ELSE decodedKeys
  /\ UNCHANGED <<queue, acked, faultsLeft, now, store, runs, probe>>

\* a variant of Elapse: the first wake-up of the loop wakes every sleeper
Elapse_hasty(ss, dt) ==
  [d \in DOMAIN ss |->
     IF ss[d].pc = "sleeping" THEN [ss[d] EXCEPT !.remaining = 0] ELSE ss[d]]

\* a variant of Elapse: a sleep that holds the loop (time.sleep), so that of
\* several sleepers only the first one's time passes
Elapse_blocking(ss, dt) ==
  [d \in DOMAIN ss |->
     IF ss[d].pc = "sleeping" /\ \A c \in DOMAIN ss : c < d => ss[c].pc # "sleeping"
     THEN [ss[d] EXCEPT !.remaining = @ - dt] ELSE ss[d]]

\* await asyncio.sleep(processing_time): the coroutine is suspended and the
\* loop is free; while dt passes, it passes for every sleeper
Elapse(ss, dt) ==
  [d \in DOMAIN ss |->
     IF ss[d].pc = "sleeping"
     THEN [ss[d] EXCEPT !.remaining = @ - dt] ELSE ss[d]]

\* The clock moves on to the next wake-up; the loop runs a sleeper whose
\* time is up before the clock moves again.
Tick ==
  /\ \E d \in Slots : slots[d].pc = "sleeping"
  /\ \A d \in Slots : slots[d].pc = "sleeping" => slots[d].remaining > 0
  /\ LET dt == Min({slots[d].remaining :
                      d \in {c \in Slots : slots[c].pc = "sleeping"}})
     IN /\ now' = now + dt
        /\ slots' = Elapse(slots, dt)
  /\ UNCHANGED <<queue, pending, acked, dupsLeft, faultsLeft, store,
                 decodedKeys, runs, probe>>

\* The sleep of delivery d is over: redaction, the record, the store write
\* and the response, with no suspension in between.
Wake(d, proc_fault, store_fault) ==
  /\ slots[d].pc = "sleeping"
  /\ slots[d].remaining = 0
  /\ (proc_fault \/ store_fault) => faultsLeft > 0
  /\ ~(proc_fault /\ store_fault)
  /\ LET r == process_message_resume(slots[d], store, now, proc_fault, store_fault)
     IN /\ slots' = [slots EXCEPT ![d] = r.slot]
        /\ store' = r.store
        /\ runs' = IF IsSuccess(r.slot.response)
                   THEN runs \cup {Run(r.slot, r.store, now)} ELSE runs
  /\ faultsLeft' = IF proc_fault \/ store_fault THEN faultsLeft - 1 ELSE faultsLeft
  /\ UNCHANGED <<queue, pending, acked, dupsLeft, now, decodedKeys, probe>>

\* The transport receives the response of delivery d: 2xx acknowledges the
\* message, anything else leaves it to be redelivered.  The response to a
\* request the transport has given up on reaches nobody.
Complete(d) ==
  /\ slots[d].pc = "done"
  /\ LET e == slots[d].env
         ok == slots[d].response.code \in 200..299 /\ ~slots[d].expired
     IN /\ acked' = IF ok THEN acked \cup {e} ELSE acked
        /\ pending' = IF ~ok /\ e \notin acked THEN pending \cup {e} ELSE pending
  /\ slots' = [slots EXCEPT ![d] = IdleSlot]
  /\ UNCHANGED <<queue, dupsLeft, faultsLeft, now, store, decodedKeys, runs, probe>>

Next ==
  \/ \E e \in EnvIds : Push(e)
  \/ Tick
  \/ \E d \in Slots : \E proc_fault, store_fault \in BOOLEAN :
       Wake(d, proc_fault, store_fault)
  \/ \E d \in Slots : Complete(d)

Spec == Init /\ [][Next]_vars

\* The transport goes on delivering what is pending and the loop goes on
\* running what is ready: a step that can be taken is taken.  The faults
\* end, because faultsLeft bounds them.
FairSpec == Spec /\ WF_vars(Next)

(***************************************************************************)
(* The worker under a transport that gives up on a request whose deadline  *)
(* has passed.                                                             *)
(***************************************************************************)
\* The deadline of the request of delivery d passes while the handler is
\* suspended in its delay: the transport takes the attempt as failed and
\* holds the envelope for redelivery.  process_message and
\* LogProcessor.process have no timeout and catch no cancellation, so the
\* handler stays as it is and runs on when its sleep is over.
Expire(d) ==
  /\ slots[d].pc = "sleeping"
  /\ ~slots[d].expired
  /\ faultsLeft > 0
  /\ faultsLeft' = faultsLeft - 1
  /\ slots' = [slots EXCEPT ![d].expired = TRUE]
  /\ pending' = IF slots[d].env \in acked THEN pending
                ELSE pending \cup {slots[d].env}
  /\ UNCHANGED <<queue, acked, dupsLeft, now, store, decodedKeys, runs, probe>>

DeadlineNext ==
  \/ Next
  \/ \E d \in Slots : Expire(d)

DeadlineSpec == Init /\ [][DeadlineNext]_vars

(***************************************************************************)
(* The worker with the store write as an interval.  save_processed_log is  *)
(* a coroutine, but it holds no await: doc_ref.set(data) is a call of the   *)
(* synchronous firestore.Client, made on the thread of the event loop.     *)
(* From the call of set() to its return the loop runs nothing else.        *)
(***************************************************************************)
\* a delivery is inside doc_ref.set(data): the loop's thread is in the call
Held == \E d \in Slots : slots[d].pc = "writing"

\* The sleep of delivery d is over.  When processing raises, the handler
\* answers as in Wake; otherwise it redacts, builds the record, which takes
\* processed_at from the clock, and calls doc_ref.set(data).  store_fault:
\* the call will raise.
WriteBegin(d, proc_fault, store_fault) ==
  /\ ~Held
  /\ IF proc_fault
     THEN Wake(d, TRUE, store_fault)
     ELSE /\ slots[d].pc = "sleeping"
          /\ slots[d].remaining = 0
          /\ store_fault => faultsLeft > 0
          /\ faultsLeft' = IF store_fault THEN faultsLeft - 1 ELSE faultsLeft
          /\ slots' = [slots EXCEPT
                 ![d].pc = "writing",
                 ![d].record =
                   ProcessedLog(slots[d].msg.source, slots[d].msg.text,
                                Redacted[slots[d].msg.text],
                                slots[d].msg.ingested_at, slots[d].message_id,
                                now)]
          /\ probe' = [op |-> "write", d |-> d, store_fault |-> store_fault]
          /\ UNCHANGED <<queue, pending, acked, dupsLeft, now, store,
                         decodedKeys, runs>>

\* doc_ref.set(data) of delivery d returns or raises, and the handler runs
\* on to its response
WriteReturn(d) ==
  /\ slots[d].pc = "writing"
  /\ LET r == process_message_resume([slots[d] EXCEPT !.pc = "sleeping"], store,
                                     slots[d].record.processed_at, FALSE,
                                     probe.store_fault)
     IN /\ slots' = [slots EXCEPT ![d] = r.slot]
        /\ store' = r.store
        /\ runs' = IF IsSuccess(r.slot.response)
                   THEN runs \cup {Run(r.slot, r.store, now)} ELSE runs
  /\ probe' = NoProbe
  /\ UNCHANGED <<queue, pending, acked, dupsLeft, faultsLeft, now, decodedKeys>>

\* what the loop runs when its thread is free: a handler from its start, the
\* timers, a response on its way out
LoopPush(e) == ~Held /\ Push(e)
LoopTick == ~Held /\ Tick
LoopComplete(d) == ~Held /\ Complete(d)

WriteNext ==
  \/ \E e \in EnvIds : LoopPush(e)
  \/ LoopTick
  \/ \E d \in Slots : \E proc_fault, store_fault \in BOOLEAN :
       WriteBegin(d, proc_fault, store_fault)
  \/ \E d \in Slots : WriteReturn(d)
  \/ \E d \in Slots : LoopComplete(d)

WriteSpec == Init /\ [][WriteNext]_vars

\* the worker's state machine at rest, for a component run alone
AtRest ==
  /\ queue = {} /\ pending = {} /\ acked = {}
  /\ dupsLeft = 0 /\ faultsLeft = 0 /\ now = 0
  /\ slots = [d \in Slots |-> IdleSlot]
  /\ decodedKeys = {} /\ runs = {}
RestUnchanged ==
  UNCHANGED <<queue, pending, acked, dupsLeft, faultsLeft, now, slots,
              decodedKeys, runs>>

(***************************************************************************)
(* The store adapter run alone: calls of save_processed_log and            *)
(* get_processed_log on one store.                                         *)
(***************************************************************************)
AdapterTenants == {TenantA, TenantB}
AdapterLogs == {LogOne, LogY}
AdapterLogsIn ==
  {ProcessedLog(SourceJson, text, Redacted[text], IngestedAt, "m1", 0) :
     text \in Texts}
\* history: (tenant_id, log_id) -> the document of the last put that went
\* through, for the keys that had one
NoPuts == <<>>
AdapterInit ==
  /\ AtRest
  /\ store = <<>>
  /\ probe = [op |-> "none", puts |-> NoPuts]

\* one call save_processed_log(tenant_id, log_id, processed_log)
Save(tenant_id, log_id, processed_log, fault) ==
  /\ LET r == save_processed_log(store, tenant_id, log_id, processed_log, fault)
     IN /\ store' = r.store
        /\ probe' =
             [op |-> "save", tenant_id |-> tenant_id, log_id |-> log_id,
              fault |-> fault, ok |-> r.ok, attempts |-> r.attempts,
              before |-> store,
              puts |-> IF fault THEN probe.puts
                       ELSE [k \in DOMAIN probe.puts \cup {<<tenant_id, log_id>>} |->
                               IF k = <<tenant_id, log_id>>
                               THEN to_firestore_dict(processed_log)
                               ELSE probe.puts[k]]]
  /\ RestUnchanged

\* one call get_processed_log(tenant_id, log_id): a read of the store
Get(tenant_id, log_id) ==
  /\ LET r == get_processed_log(store, tenant_id, log_id)
     IN probe' =
          [op |-> "get", tenant_id |-> tenant_id, log_id |-> log_id,
           exists |-> r.exists, doc |-> r.doc, before |-> store,
           puts |-> probe.puts]
  /\ store' = store
  /\ RestUnchanged

AdapterNext ==
  \/ \E tenant_id \in AdapterTenants, log_id \in AdapterLogs :
       \E processed_log \in AdapterLogsIn, fault \in BOOLEAN :
         Save(tenant_id, log_id, processed_log, fault)
  \/ \E tenant_id \in AdapterTenants, log_id \in AdapterLogs :
       Get(tenant_id, log_id)

AdapterSpec == AdapterInit /\ [][AdapterNext]_vars

(***************************************************************************)
(* The processor run alone: LogProcessor(delay_per_char).process(text)     *)
(* under settings with a given processing_delay_per_char.                  *)
(***************************************************************************)
\* the largest delay per character tried, in clock units
MaxDelay == 2
Delays == 0..MaxDelay
DelayArgs == {None} \cup {[none |-> FALSE, v |-> v] : v \in Delays}
\* the texts tried: every prefix of "555-0199", and "hi"
ProcessorTexts ==
  {SubSeq(TextPhone, 1, n) : n \in 0..Len(TextPhone)} \cup {TextPlain}

ProcessorInit ==
  /\ AtRest
  /\ store = <<>>
  /\ probe = NoProbe

\* LogProcessor(delay_per_char).process(text, ...) under settings whose
\* processing_delay_per_char is settings_delay: the time slept, then the
\* redaction; nothing in it raises
Process(settings_delay, delay_per_char, text) ==
  /\ LET processor == LogProcessor_init(Settings(settings_delay), delay_per_char)
     IN probe' =
          [op |-> "process", settings_delay |-> settings_delay,
           arg |-> delay_per_char, text |-> text,
           delay_per_char |-> processor.delay_per_char,
           slept |-> processing_time(processor, text),
           steps |-> <<"sleep", "redact", "return">>,
           result |-> redact_sensitive_data(text)]
  /\ UNCHANGED store
  /\ RestUnchanged

ProcessorNext ==
  \E settings_delay \in Delays, delay_per_char \in DelayArgs :
    \E text \in ProcessorTexts : Process(settings_delay, delay_per_char, text)

ProcessorSpec == ProcessorInit /\ [][ProcessorNext]_vars

(***************************************************************************)
(* The codec run alone: a message of the gateway, serialised by            *)
(* to_pubsub_data, carried as base64 by the push transport, decoded by     *)
(* the worker.                                                             *)
(***************************************************************************)
\* a variant of JsonEscape: quotes and backslashes are written as they are
JsonEscape_raw(c) ==
  IF c < 32
  THEN <<92, 117, 48, 48, HexChar(c \div 16), HexChar(c % 16)>>
  ELSE <<c>>

\* model_dump_json, one character of a string: the quote, the backslash
\* and the control characters are escaped, every other character is
\* written as it is (as UTF-8, not as \uXXXX)
JsonEscape(c) ==
  CASE c = 34 -> <<92, 34>> [] c = 92 -> <<92, 92>>
    [] c = 10 -> <<92, 110>> [] c = 13 -> <<92, 114>>
    [] c = 9 -> <<92, 116>> [] c = 8 -> <<92, 98>>
    [] c = 12 -> <<92, 102>>
    [] c < 32 -> <<92, 117, 48, 48, HexChar(c \div 16), HexChar(c % 16)>>
    [] OTHER -> <<c>>
RECURSIVE JsonString(_)
JsonString(s) ==
  IF Len(s) = 0 THEN <<>> ELSE JsonEscape(Head(s)) \o JsonString(Tail(s))
\* model_dump_json of the gateway's InternalMessage: the fields in the
\* order of their declaration, no spaces; source is the enum's value,
\* ingested_at the datetime in its ISO form
model_dump_json(message) ==
  <<123>>
  \o <<34>> \o K_tenant_id \o <<34, 58, 34>> \o JsonString(message.tenant_id) \o <<34, 44>>
  \o <<34>> \o K_log_id \o <<34, 58, 34>> \o JsonString(message.log_id) \o <<34, 44>>
  \o <<34>> \o K_text \o <<34, 58, 34>> \o JsonString(message.text) \o <<34, 44>>
  \o <<34>> \o K_source \o <<34, 58, 34>> \o JsonString(message.source) \o <<34, 44>>
  \o <<34>> \o K_ingested_at \o <<34, 58, 34>> \o JsonString(message.ingested_at) \o <<34>>
  \o <<125>>
\* InternalMessage.to_pubsub_data: model_dump_json().encode("utf-8")
to_pubsub_data(message) == utf8_encode(model_dump_json(message))

\* the texts tried: empty, "hi", a quote, a backslash, a line feed, a tab,
\* the control character 1, DEL, e-acute, the euro sign, an emoji outside
\* the BMP, the six characters \u0041, a JSON object, "+/=", and a phone
CodecTexts ==
  { <<>>, TextPlain, <<34>>, <<92>>, <<10>>, <<9>>, <<1>>, <<127>>, <<233>>,
    <<8364>>, <<128512>>, <<92, 117, 48, 48, 52, 49>>,
    <<123, 34, 97, 34, 58, 49, 125>>, <<43, 47, 61>>, TextPhone }
\* "2024-01-15T10:00:00.123456Z"
IngestedAtMicros ==
  <<50, 48, 50, 52, 45, 48, 49, 45, 49, 53, 84, 49, 48, 58, 48, 48, 58, 48, 48,
    46, 49, 50, 51, 52, 53, 54, 90>>
CodecMessages ==
  [tenant_id : {TenantA, TenantAX}, log_id : {LogOne, <<34, 233>>},
   text : CodecTexts, source : {SourceJson, SourceText},
   ingested_at : {IngestedAt, IngestedAtMicros}]

\* one message of the gateway, about to be published
CodecInit ==
  /\ AtRest
  /\ store = <<>>
  /\ \E message \in CodecMessages : probe = [op |-> "publish", message |-> message]

\* the gateway publishes message, the transport pushes its bytes as base64,
\* the worker decodes
RoundTrip(message) ==
  /\ probe = [op |-> "publish", message |-> message]
  /\ probe' =
       CHOOSE r \in {[op |-> "roundtrip", message |-> message, decoded |-> Decode(data)] :
                       data \in {b64encode(to_pubsub_data(message))}} : TRUE
  /\ UNCHANGED store
  /\ RestUnchanged

CodecNext == \E message \in CodecMessages : RoundTrip(message)

CodecSpec == CodecInit /\ [][CodecNext]_vars

(***************************************************************************)
(* decode_data run alone on data strings: the base64 of a message as the   *)
(* gateway publishes it, and that string with a character put in, added or *)
(* taken away.                                                             *)
(***************************************************************************)
DataMessages ==
  [tenant_id : {TenantA, TenantB}, log_id : {LogOne}, text : {TextPlain, TextPhone},
   source : {SourceJson, SourceText}, ingested_at : {IngestedAt}]
\* s with the character c put in before position i
Insert(s, i, c) == SubSeq(s, 1, i - 1) \o <<c>> \o SubSeq(s, i, Len(s))
\* the data as it is; with "!" after it; with a line feed, a space or "!"
\* inside; with "!" before it; with one more "="; with "A" after its
\* padding; without its last character; without its first character
Variants(data) ==
  { data, Insert(data, Len(data) + 1, 33), Insert(data, 9, 10),
    Insert(data, 11, 32), Insert(data, 5, 33), Insert(data, 1, 33),
    Insert(data, Len(data) + 1, 61), Insert(data, Len(data) + 1, 65),
    SubSeq(data, 1, Len(data) - 1), SubSeq(data, 2, Len(data)) }
DataStrings ==
  {BadBase64}
  \cup UNION {Variants(b64encode(to_pubsub_data(message))) : message \in DataMessages}

DataInit ==
  /\ AtRest
  /\ store = <<>>
  /\ \E data \in DataStrings : probe = [op |-> "data", data |-> data]

\* the decode step of process_message on the data at hand
DecodeData ==
  /\ probe.op = "data"
  /\ probe' =
       CHOOSE r \in {[op |-> "decoded", data |-> probe.data, decoded |-> d.ok,
                      message |-> IF d.ok THEN InternalMessage(d.v)
                                  ELSE [ok |-> FALSE, v |-> NoMessage]] :
                       d \in {decode_data(probe.data)}} : TRUE
  /\ UNCHANGED store
  /\ RestUnchanged

DataNext == DecodeData
DataSpec == DataInit /\ [][DataNext]_vars

(***************************************************************************)
(* The redactor run alone: redact_sensitive_data on a text made of a       *)
(* piece of interest (core) with some characters before and after it.      *)
(***************************************************************************)
\* the most characters put before, and after, the core
MaxPad == 1
\* a space, "x", "1"
PadChars == {32, 120, 49}
RECURSIVE Strings(_, _)
Strings(chars, n) ==
  IF n = 0 THEN {<<>>}
  ELSE Strings(chars, n - 1)
       \cup {Append(s, c) : s \in Strings(chars, n - 1), c \in chars}
Pads == Strings(PadChars, MaxPad)
\* the cores: instances of the five shapes, by kind, and pieces that are
\* none of them
RedactCores ==
  {
    [kind |-> "phone7", s |-> <<53, 53, 53, 45, 48, 49, 57, 57>>],   \* 555-0199
    [kind |-> "phone7", s |-> <<53, 53, 53, 46, 48, 49, 57, 57>>],   \* 555.0199
    [kind |-> "phone7", s |-> <<53, 53, 53, 32, 48, 49, 57, 57>>],   \* 555 0199
    [kind |-> "phone7", s |-> <<53, 53, 53, 48, 49, 57, 57>>],   \* 5550199
    [kind |-> "phone10", s |-> <<53, 53, 53, 45, 53, 53, 53, 45, 48, 49, 57, 57>>],   \* 555-555-0199
    [kind |-> "phone10", s |-> <<53, 53, 53, 53, 53, 53, 48, 49, 57, 57>>],   \* 5555550199
    [kind |-> "phone10", s |-> <<53, 53, 53, 46, 53, 53, 53, 32, 48, 49, 57, 57>>],   \* 555.555 0199
    [kind |-> "parens", s |-> <<40, 53, 53, 53, 41, 32, 53, 53, 53, 45, 48, 49, 57, 57>>],   \* (555) 555-0199
    [kind |-> "parens", s |-> <<40, 53, 53, 53, 41, 53, 53, 53, 45, 48, 49, 57, 57>>],   \* (555)555-0199
    [kind |-> "email", s |-> <<97, 64, 98, 46, 99, 111>>],   \* a@b.co
    [kind |-> "email", s |-> <<106, 46, 100, 64, 101, 120, 46, 99, 111, 109>>],   \* j.d@ex.com
    [kind |-> "email", s |-> <<97, 95, 98, 64, 99, 45, 100, 46, 111, 114, 103>>],   \* a_b@c-d.org
    [kind |-> "email", s |-> <<45, 64, 98, 46, 99, 111>>],   \* -@b.co
    [kind |-> "ssn", s |-> <<49, 50, 51, 45, 52, 53, 45, 54, 55, 56, 57>>],   \* 123-45-6789
    [kind |-> "none", s |-> <<97, 64, 98, 46, 124, 99>>],   \* a@b.|c
    [kind |-> "none", s |-> <<97, 64, 98, 46, 99>>],   \* a@b.c
    [kind |-> "none", s |-> <<53, 53, 45, 48, 49, 57, 57>>],   \* 55-0199
    [kind |-> "none", s |-> <<53, 53, 53, 45, 48, 49, 57>>],   \* 555-019
    [kind |-> "none", s |-> <<104, 105>>],   \* hi
    [kind |-> "none", s |-> <<>>],   \* the empty text
    [kind |-> "none", s |-> <<118, 49, 46, 50, 46, 51>>],   \* v1.2.3
    [kind |-> "none", s |-> <<49, 50, 51, 45, 52, 53, 45, 54, 55, 56>>],   \* 123-45-678
    [kind |-> "none", s |-> <<120, 64, 121>>],   \* x@y
    [kind |-> "none", s |-> <<97, 124, 98>>],   \* a|b
    [kind |-> "none", s |-> <<40, 53, 53, 53, 41>>]    \* (555)
  }

\* the most items put into one text
MaxItems == 3
\* " and ", the ordinary word between two items
ItemSep == <<32, 97, 110, 100, 32>>
\* the lists of two to MaxItems instances of the shapes, each of another kind
ItemLists ==
  UNION {{q \in [1..n -> {c \in RedactCores : c.kind # "none"}] :
            \A i, j \in 1..n : i < j => q[i].kind # q[j].kind} :
         n \in 2..MaxItems}
RECURSIVE JoinItems(_)
JoinItems(q) ==
  IF Len(q) = 1 THEN q[1].s
  ELSE q[1].s \o ItemSep \o JoinItems(Tail(q))

\* one text, about to be redacted: a core with something around it, several
\* items with a word between them, or two instances of the shapes with
\* nothing between them
RedactInit ==
  /\ AtRest
  /\ store = <<>>
  /\ \/ \E pre \in Pads, core \in RedactCores, post \in Pads :
          probe = [op |-> "text", pre |-> pre, core |-> core, post |-> post,
                   items |-> <<core>>]
     \/ \E q \in ItemLists :
          probe = [op |-> "text", pre |-> <<>>,
                   core |-> [kind |-> "multi", s |-> JoinItems(q)],
                   post |-> <<>>, items |-> q]
     \/ \E a, b \in {c \in RedactCores : c.kind # "none"} :
          probe = [op |-> "text", pre |-> <<>>,
                   core |-> [kind |-> "pair", s |-> a.s \o b.s],
                   post |-> <<>>, items |-> <<a, b>>]

\* one call redact_sensitive_data(pre + core + post)
Redact ==
  /\ probe.op = "text"
  /\ probe' =
       CHOOSE r \in {[op |-> "redact", pre |-> probe.pre, core |-> probe.core,
                      post |-> probe.post, items |-> probe.items,
                      text |-> text,
                      out |-> redact_sensitive_data(text)] :
                       text \in {probe.pre \o probe.core.s \o probe.post}} : TRUE
  /\ UNCHANGED store
  /\ RestUnchanged

RedactNext == Redact

RedactSpec == RedactInit /\ [][RedactNext]_vars

(***************************************************************************)
(* The ingest gateway: POST /ingest.  A request body is given by what      *)
(* request.json() makes of it (json) and by what decoding it as UTF-8      *)
(* gives (text).  A text of the gateway is [head, fill]: the characters    *)
(* of head followed by fill times "a", so that a text of a million         *)
(* characters is one value.  A JSON member is [t, s, text]: t is "absent", *)
(* "null", "num" or "str", s the string of a tenant_id or log_id, text     *)
(* the text of a "text" member.                                            *)
(***************************************************************************)
\* Field(max_length=...) of IngestRequest.tenant_id, .log_id and .text
tenant_id_max_length == 128
log_id_max_length == 128
text_max_length == 1000000

GText(head, fill) == [head |-> head, fill |-> fill]
\* len(text)
GLen(text) == Len(text.head) + text.fill
\* not text.strip(): nothing but white space
StripsToEmpty(text) ==
  text.fill = 0 /\ \A i \in 1..Len(text.head) : text.head[i] \in Space

\* a variant of isalnum: "/" passes as well
isalnum_slash(c) == c \in Alnum \cup {47, 201, 233, 304}

\* str.isalnum() of one character, for the characters of the model: ASCII,
\* E-acute (201), e-acute (233), capital I with dot above (304) and the
\* combining dot above (775), which is no letter
isalnum(c) == c \in Alnum \cup {201, 233, 304}
\* str.lower() of one character that stays one character
LowerChar(c) == IF c \in Upper THEN c + 32 ELSE IF c = 201 THEN 233 ELSE c
\* how many of the first i characters of s are capital I with dot above
Dotted(s, i) == Cardinality({j \in 1..i : s[j] = 304})
\* str.lower(): capital I with dot above becomes "i" and the combining dot,
\* so character i of s starts at i + Dotted(s, i - 1) in the result
lower(s) ==
  IF Dotted(s, Len(s)) = 0 THEN [i \in 1..Len(s) |-> LowerChar(s[i])]
  ELSE [k \in 1..(Len(s) + Dotted(s, Len(s))) |->
          LET i == CHOOSE i \in 1..Len(s) :
                     i + Dotted(s, i - 1) <= k /\ k <= i + Dotted(s, i)
          IN IF s[i] # 304 THEN LowerChar(s[i])
             ELSE IF k = i + Dotted(s, i - 1) THEN 105 ELSE 775]
\* all(c.isalnum() or c in "_-" for c in v)
TenantCharsOk(v) == \A i \in 1..Len(v) : isalnum(v[i]) \/ v[i] \in {95, 45}
\* IngestRequest.validate_tenant_id: the check, then v.lower()
validate_tenant_id(v) ==
  IF TenantCharsOk(v) THEN [ok |-> TRUE, v |-> lower(v)]
  ELSE [ok |-> FALSE, v |-> <<>>]

JAbsent == [t |-> "absent", s |-> <<>>, text |-> GText(<<>>, 0)]
JNull == [t |-> "null", s |-> <<>>, text |-> GText(<<>>, 0)]
JNumber == [t |-> "num", s |-> <<>>, text |-> GText(<<>>, 0)]
JString(s) == [t |-> "str", s |-> s, text |-> GText(s, 0)]
JText(text) == [t |-> "str", s |-> <<>>, text |-> text]
NoPayload == [tenant_id |-> <<>>, log_id |-> <<>>, text |-> GText(<<>>, 0)]
\* IngestRequest(**body): body must be a mapping; tenant_id a string of 1 to
\* 128 characters that passes validate_tenant_id; log_id absent, null or a
\* string of at most 128 characters (None is given as the empty string, the
\* handler treats the two alike); text a string of 1 to 1,000,000 characters
IngestRequest(body) ==
  IF /\ body.kind = "dict"
     /\ body.tenant_id.t = "str"
     /\ Len(body.tenant_id.s) \in 1..tenant_id_max_length
     /\ validate_tenant_id(body.tenant_id.s).ok
     /\ \/ body.log_id.t \in {"absent", "null"}
        \/ body.log_id.t = "str" /\ Len(body.log_id.s) <= log_id_max_length
     /\ body.text.t = "str"
     /\ GLen(body.text.text) \in 1..text_max_length
  THEN [ok |-> TRUE,
        v |-> [tenant_id |-> validate_tenant_id(body.tenant_id.s).v,
               log_id |-> IF body.log_id.t = "str" THEN body.log_id.s ELSE <<>>,
               text |-> body.text.text]]
  ELSE [ok |-> FALSE, v |-> NoPayload]

\* "log_"
LogPrefix == <<108, 111, 103, 95>>
\* generate_log_id: "log_" and the first 16 of the 32 hexadecimal
\* characters of uuid4().hex
generate_log_id(uuid_hex) == LogPrefix \o SubSeq(uuid_hex, 1, 16)

\* the gateway's InternalMessage(tenant_id, log_id, text, source)
GatewayMessage(tenant_id, log_id, text, source) ==
  [tenant_id |-> tenant_id, log_id |-> log_id, text |-> text,
   source |-> source, ingested_at |-> IngestedAt]
\* a response of the gateway and what the call has published
Rejected(code) ==
  [code |-> code, body |-> [status |-> "error", log_id |-> <<>>],
   published |-> <<>>]

\* a variant of _publish_message: a failed publish is logged and passed over
publish_message_quiet(message, log_id, publish_fault) ==
  [code |-> 202, body |-> [status |-> "accepted", log_id |-> log_id],
   published |-> IF publish_fault THEN <<>> ELSE <<message>>]

\* _publish_message, then return IngestResponse(log_id=log_id):
\* publisher.publish waits for the confirmation of the queue; when it
\* raises, the request is answered 500
_publish_message(message, log_id, publish_fault) ==
  IF publish_fault THEN Rejected(500)
  ELSE [code |-> 202, body |-> [status |-> "accepted", log_id |-> log_id],
        published |-> <<message>>]

\* a variant of _handle_json_payload: a body that fails validation is
\* answered 400
handle_json_payload_400(request, uuid_hex, publish_fault) ==
  IF request.json.kind = "invalid" \/ ~IngestRequest(request.json).ok
  THEN Rejected(400)
  ELSE _publish_message(
         GatewayMessage(IngestRequest(request.json).v.tenant_id,
                        IF IngestRequest(request.json).v.log_id # <<>>
                        THEN IngestRequest(request.json).v.log_id
                        ELSE generate_log_id(uuid_hex),
                        IngestRequest(request.json).v.text, SourceJson),
         IF IngestRequest(request.json).v.log_id # <<>>
         THEN IngestRequest(request.json).v.log_id
         ELSE generate_log_id(uuid_hex),
         publish_fault)

\* _handle_json_payload
_handle_json_payload(request, uuid_hex, publish_fault) ==
  IF request.json.kind = "invalid" THEN Rejected(400)
  ELSE LET payload == IngestRequest(request.json)
       IN IF ~payload.ok THEN Rejected(422)
          ELSE LET log_id == IF payload.v.log_id # <<>> THEN payload.v.log_id
                             ELSE generate_log_id(uuid_hex)
               IN _publish_message(
                    GatewayMessage(payload.v.tenant_id, log_id, payload.v.text,
                                   SourceJson),
                    log_id, publish_fault)

\* _handle_text_payload; the header is [none, v]
_handle_text_payload(request, uuid_hex, publish_fault) ==
  IF request.x_tenant_id.none \/ request.x_tenant_id.v = <<>> THEN Rejected(400)
  ELSE LET tenant_id == lower(request.x_tenant_id.v)
       IN IF ~TenantCharsOk(tenant_id) THEN Rejected(400)
          ELSE IF ~request.utf8 THEN Rejected(400)
          ELSE IF StripsToEmpty(request.text) THEN Rejected(400)
          ELSE _publish_message(
                 GatewayMessage(tenant_id, generate_log_id(uuid_hex),
                                request.text, SourceText),
                 generate_log_id(uuid_hex), publish_fault)

\* "application/json", "text/plain"
ApplicationJsonType == <<97, 112, 112, 108, 105, 99, 97, 116, 105, 111, 110, 47, 106, 115, 111, 110>>
TextPlainType == <<116, 101, 120, 116, 47, 112, 108, 97, 105, 110>>
\* ingest: routing by the lower-cased Content-Type
ingest(request, uuid_hex, publish_fault) ==
  IF Contains(lower(request.content_type), ApplicationJsonType)
  THEN _handle_json_payload(request, uuid_hex, publish_fault)
  ELSE IF Contains(lower(request.content_type), TextPlainType)
  THEN _handle_text_payload(request, uuid_hex, publish_fault)
  ELSE Rejected(400)

\* The requests of the model.
Repeat(c, n) == [i \in 1..n |-> c]
ContentTypes ==
  { ApplicationJsonType,
    <<65, 112, 112, 108, 105, 99, 97, 116, 105, 111, 110, 47, 74, 83, 79, 78, 59, 32, 99, 104, 97, 114, 115, 101, 116, 61, 117, 116, 102, 45, 56>>,
    TextPlainType,
    <<116, 101, 120, 116, 47, 112, 108, 97, 105, 110, 59, 32, 99, 104, 97, 114, 115, 101, 116, 61, 117, 116, 102, 45, 56>>,
    <<97, 112, 112, 108, 105, 99, 97, 116, 105, 111, 110, 47, 120, 109, 108>>,
    <<>> }
\* "acme", "ACME_1", "a b", "a/b", e-acute, capital I with dot above, and
\* identifiers of 128 and of 129 characters
GatewayTenantIds ==
  { <<97, 99, 109, 101>>, <<65, 67, 77, 69, 95, 49>>, <<97, 32, 98>>, <<97, 47, 98>>, <<233>>, <<304>>,
    Repeat(97, tenant_id_max_length), Repeat(97, tenant_id_max_length + 1) }
JsonTenants == {JAbsent, JNull, JNumber, JString(<<>>)} \cup {JString(s) : s \in GatewayTenantIds}
JsonLogIds ==
  { JAbsent, JNull, JNumber, JString(<<>>), JString(<<109, 121, 45, 108, 111, 103>>),
    JString(Repeat(97, log_id_max_length + 1)) }
\* "", " ", "hi 555-0199", and texts of 1,000,000 and 1,000,001 characters
GatewayTexts ==
  { GText(<<>>, 0), GText(<<32>>, 0), GText(<<104, 105, 32, 53, 53, 53, 45, 48, 49, 57, 57>>, 0),
    GText(<<>>, text_max_length), GText(<<>>, text_max_length + 1) }
JsonTexts == {JAbsent, JNumber} \cup {JText(text) : text \in GatewayTexts}
JsonInvalid ==
  [kind |-> "invalid", tenant_id |-> JAbsent, log_id |-> JAbsent, text |-> JAbsent]
JsonBodies ==
  { JsonInvalid, [JsonInvalid EXCEPT !.kind = "list"] }
  \cup [kind : {"dict"}, tenant_id : JsonTenants, log_id : JsonLogIds, text : JsonTexts]
NoHeader == [none |-> TRUE, v |-> <<>>]
TenantHeaders ==
  {NoHeader, [none |-> FALSE, v |-> <<>>]} \cup {[none |-> FALSE, v |-> s] : s \in GatewayTenantIds}
\* a request with a JSON body; one with a body of text; one with a body that
\* is not UTF-8 (the byte 255, its text is never read)
Requests ==
  [content_type : ContentTypes, json : JsonBodies, x_tenant_id : {NoHeader},
   utf8 : {TRUE}, text : {GText(<<123>>, 0)}]
  \cup [content_type : ContentTypes, json : {JsonInvalid},
        x_tenant_id : TenantHeaders, utf8 : {TRUE}, text : GatewayTexts]
  \cup [content_type : ContentTypes, json : {JsonInvalid},
        x_tenant_id : TenantHeaders, utf8 : {FALSE}, text : {GText(<<255>>, 0)}]
\* uuid4().hex
UuidHexes ==
  { <<48, 49, 50, 51, 52, 53, 54, 55, 56, 57, 97, 98, 99, 100, 101, 102, 48, 49, 50, 51, 52, 53, 54, 55, 56, 57, 97, 98, 99, 100, 101, 102>>,
    <<100, 101, 97, 100, 98, 101, 101, 102, 100, 101, 97, 100, 98, 101, 101, 102, 100, 101, 97, 100, 98, 101, 101, 102, 100, 101, 97, 100, 98, 101, 101, 102>> }

GatewayInit ==
  /\ AtRest
  /\ store = <<>>
  /\ \E request \in Requests : probe = [op |-> "request", request |-> request]

\* One call of POST /ingest.  publish_fault: the publisher raises
\* PubSubPublishError (topic not found, permission denied, or any other
\* failure of the publish or of its confirmation).
Ingest(uuid_hex, publish_fault) ==
  /\ probe.op = "request"
  /\ probe' = [op |-> "response", request |-> probe.request,
               uuid_hex |-> uuid_hex, publish_fault |-> publish_fault,
               response |-> CHOOSE r \in {ingest(probe.request, uuid_hex, publish_fault)} : TRUE]
  /\ UNCHANGED store
  /\ RestUnchanged

GatewayNext == \E uuid_hex \in UuidHexes, publish_fault \in BOOLEAN : Ingest(uuid_hex, publish_fault)
GatewaySpec == GatewayInit /\ [][GatewayNext]_vars

(***************************************************************************)
(* The properties.                                                         *)
(***************************************************************************)
\* the key and the document of the message of envelope e
KeyDoc(e) ==
  get_processed_log(store, Decoded[e].v.tenant_id, Decoded[e].v.log_id)
\* the key and the document of the message of delivery d
SlotDoc(st, d) ==
  get_processed_log(st, slots[d].msg.tenant_id, slots[d].msg.log_id)
SixFields ==
  {"source", "original_text", "modified_data", "processed_at", "ingested_at",
   "message_id"}

\* the delivery in slot d has been answered as undecodable data must be
PoisonAnswer(d) ==
  /\ slots[d].pc = "done"
  /\ slots[d].response.code = 200
  /\ {"status", "message_id"} \subseteq DOMAIN slots[d].response.body
  /\ slots[d].response.body.status = "error"
  /\ slots[d].response.body.message_id = Envelopes[slots[d].env].message_id
  /\ slots[d].steps = <<"received", "failed_decode">>
  /\ slots[d].record = NoRecord
  /\ slots[d].remaining = 0

\* C1: a delivery whose data does not decode (bad base64, bytes that are
\* not UTF-8, bad JSON, JSON that is no object, a missing or non-string
\* field) is answered 200 with status "error" and the envelope's
\* message_id; it never sleeps, builds no record, and its handler leaves
\* the store and the clock as they were.
PoisonAcknowledged ==
  /\ [](\A d \in Slots :
          (slots[d].pc # "idle" /\ ~Decoded[slots[d].env].ok) => PoisonAnswer(d))
  /\ [][\A e \in EnvIds :
          (~Decoded[e].ok /\ Push(e)) =>
            (store' = store /\ now' = now /\ runs' = runs)]_vars
PoisonAcknowledgedWitness ==
  /\ store # <<>>
  /\ \E d \in Slots :
       /\ slots[d].pc = "done"
       /\ ~Decoded[slots[d].env].ok
       /\ slots[d].response.code = 200

\* C2: whenever a delivery of a decodable message has been answered
\* "success" (the response is on its way, or the transport has taken it as
\* the acknowledgment), a document exists at the message's (tenant_id,
\* log_id), and it existed when the answer was made.
NoSilentDataLoss ==
  /\ \A d \in Slots :
       IsSuccess(slots[d].response) =>
         (Decoded[slots[d].env].ok /\ SlotDoc(store, d).exists)
  /\ \A r \in runs : r.four.exists /\ KeyDoc(r.env).exists
  /\ \A e \in acked :
       Decoded[e].ok => (KeyDoc(e).exists /\ \E r \in runs : r.env = e)
NoSilentDataLossWitness ==
  \E e \in acked : Decoded[e].ok /\ KeyDoc(e).exists /\ faultsLeft = 0

\* C3: a delivery whose store write fails is answered 500, not with a 2xx
\* status or a "success" body, and the transport, given that answer, does
\* not take the message as acknowledged.
StoreFailureNotAcknowledged ==
  [][\A d \in Slots :
       /\ Wake(d, FALSE, TRUE) =>
            /\ slots'[d].response.code = 500
            /\ ~IsSuccess(slots'[d].response)
            /\ runs' = runs
       /\ (Complete(d) /\ slots[d].response.code = 500) => acked' = acked]_vars
StoreFailureNotAcknowledgedWitness ==
  \E d \in Slots :
    /\ slots[d].pc = "done"
    /\ slots[d].steps = <<"received", "decoded", "processed", "failed_store">>
    /\ slots[d].response.code = 500
    /\ slots[d].env \notin acked

\* C4: a delivery whose processing step raises is answered 500, is not
\* answered "success", and leaves the store as it was.
ProcessingFailureNotAcknowledged ==
  [][\A d \in Slots :
       Wake(d, TRUE, FALSE) =>
         /\ slots'[d].response.code = 500
         /\ ~IsSuccess(slots'[d].response)
         /\ store' = store
         /\ runs' = runs]_vars
ProcessingFailureNotAcknowledgedWitness ==
  \E d \in Slots :
    /\ slots[d].pc = "done"
    /\ slots[d].steps = <<"received", "decoded", "failed_process">>
    /\ slots[d].response.code = 500
    /\ ~SlotDoc(store, d).exists

\* every decodable message the transport holds is stored and acknowledged
AllStoredAndAcknowledged ==
  \A e \in queue :
    Decoded[e].ok =>
      /\ e \in acked
      /\ KeyDoc(e).exists
      /\ \E r \in runs : r.env = e

\* C5: when the transport redelivers what was not acknowledged and the
\* faults end, every decodable message is in the end stored at its
\* (tenant_id, log_id) and acknowledged by a "success" answer.
EventuallyStoredAndAcknowledged == <>AllStoredAndAcknowledged
EventuallyStoredAndAcknowledgedWitness ==
  /\ faultsLeft = 0
  /\ \A e \in queue : Decoded[e].ok
  /\ AllStoredAndAcknowledged

\* C6: the runs of the pipeline on the same decoded payload, whatever their
\* message_id, each leave the same source, original_text, modified_data and
\* ingested_at in the document at the payload's key, and a run after the
\* first adds no document.
IdempotentReprocessing ==
  /\ [](\A r1, r2 \in runs :
          Decoded[r1.env].v = Decoded[r2.env].v =>
            (r1.four.exists /\ r1.four = r2.four))
  /\ [][\A d \in Slots :
          (/\ Wake(d, FALSE, FALSE)
           /\ \E r \in runs : Decoded[r.env].v = slots[d].msg) =>
            Cardinality(DOMAIN store') = Cardinality(DOMAIN store)]_vars
IdempotentReprocessingWitness ==
  \E r1, r2 \in runs :
    /\ Decoded[r1.env].v = Decoded[r2.env].v
    /\ Envelopes[r1.env].message_id # Envelopes[r2.env].message_id
    /\ r1.at # r2.at
    /\ Cardinality(DOMAIN store) = 1

\* C7: the store never holds more documents than there are distinct
\* (tenant_id, log_id) among the messages decoded so far.
DocumentsBoundedByKeys == Cardinality(DOMAIN store) <= Cardinality(decodedKeys)
DocumentsBoundedByKeysWitness ==
  /\ Cardinality(runs) > Cardinality(DOMAIN store)
  /\ \E r1, r2 \in runs :
       Envelopes[r1.env].message_id # Envelopes[r2.env].message_id

\* C8: a write for (tenant_a, log_id) leaves what is read at (tenant_b,
\* log_id) as it was, for every other tenant_b, and what is read at
\* (tenant_a, log_id) right after it is the record just written.
TenantIsolationFrame ==
  [][\A d \in Slots :
       Wake(d, FALSE, FALSE) =>
         /\ \A tenant_b \in TenantIds \ {slots[d].msg.tenant_id} :
              get_processed_log(store', tenant_b, slots[d].msg.log_id)
                = get_processed_log(store, tenant_b, slots[d].msg.log_id)
         /\ SlotDoc(store', d)
              = [exists |-> TRUE, doc |-> to_firestore_dict(slots'[d].record)]]_vars
TenantIsolationFrameWitness ==
  /\ get_processed_log(store, TenantA, LogOne).exists
  /\ get_processed_log(store, TenantB, LogOne).exists
  /\ get_processed_log(store, TenantA, LogOne).doc.original_text
       # get_processed_log(store, TenantB, LogOne).doc.original_text

\* C9: two (tenant_id, log_id) of decoded messages that differ in the
\* tenant_id are written to different paths.
NoCrossTenantCollision ==
  \A k1, k2 \in decodedKeys :
    k1[1] # k2[1] => DocPath(k1[1], k1[2]) # DocPath(k2[1], k2[2])

\* the document at path is the record one delivery of envelope e builds
BuiltBy(path, e) ==
  /\ Decoded[e].ok
  /\ path = DocPath(Decoded[e].v.tenant_id, Decoded[e].v.log_id)
  /\ store[path].source = Decoded[e].v.source
  /\ store[path].original_text = Decoded[e].v.text
  /\ store[path].ingested_at = Decoded[e].v.ingested_at
  /\ store[path].modified_data = redact_sensitive_data(store[path].original_text)
  /\ store[path].message_id = Envelopes[e].message_id
  /\ \E time \in 0..now : store[path].processed_at = isoformat(time)

\* C10: every document in the store has exactly the six fields and is the
\* record of one delivery: source, original_text and ingested_at of its
\* message, the redaction of that text, and that delivery's message_id.
CompleteRecords ==
  \A path \in DOMAIN store :
    /\ DOMAIN store[path] = SixFields
    /\ \E e \in queue : BuiltBy(path, e)
CompleteRecordsWitness ==
  \E d1, d2 \in Slots :
    /\ IsSuccess(slots[d1].response) /\ IsSuccess(slots[d2].response)
    /\ slots[d1].msg.tenant_id = slots[d2].msg.tenant_id
    /\ slots[d1].msg.log_id = slots[d2].msg.log_id
    /\ slots[d1].msg.text # slots[d2].msg.text
    /\ Cardinality(DOMAIN store) = 1

\* the successful runs recorded at the key of path
RunsAt(path) ==
  {r \in runs : DocPath(Decoded[r.env].v.tenant_id, Decoded[r.env].v.log_id) = path}

\* C11: a completed put replaces the document at its key by exactly the
\* record of that put and leaves every other document alone; so the
\* document at a key is always the record (text, message_id, processed_at)
\* of a run that no other run on that key came after.
LastWriteWins ==
  /\ [][\A d \in Slots :
          Wake(d, FALSE, FALSE) =>
            LET path == DocPath(slots[d].msg.tenant_id, slots[d].msg.log_id)
            IN /\ DOMAIN store' = DOMAIN store \cup {path}
               /\ store'[path] =
                    [source |-> slots[d].msg.source,
                     original_text |-> slots[d].msg.text,
                     modified_data |-> redact_sensitive_data(slots[d].msg.text),
                     processed_at |-> isoformat(now),
                     ingested_at |-> slots[d].msg.ingested_at,
                     message_id |-> slots[d].message_id]
               /\ \A q \in DOMAIN store : q # path => store'[q] = store[q]]_vars
  /\ [](\A path \in DOMAIN store :
          \E r \in RunsAt(path) :
            /\ store[path].message_id = Envelopes[r.env].message_id
            /\ store[path].original_text = Decoded[r.env].v.text
            /\ store[path].source = Decoded[r.env].v.source
            /\ store[path].processed_at = isoformat(r.at)
            /\ \A r2 \in RunsAt(path) : r2.at <= r.at)
\* two deliveries raced on one key (the second was started before the first
\* wrote); the one that wrote last, with another text, is what the store has
LastWriteWinsWitness ==
  \E path \in DOMAIN store : \E r1, r2 \in RunsAt(path) :
    /\ r1.at < r2.at
    /\ r1.at > 0
    /\ r2.at - Len(Decoded[r2.env].v.text) * processing_delay_per_char < r1.at
    /\ Decoded[r1.env].v.text # Decoded[r2.env].v.text
    /\ store[path].message_id = Envelopes[r2.env].message_id
    /\ store[path].original_text = Decoded[r2.env].v.text

\* C12: get_processed_log answers None where no put to the key has gone
\* through, answers the document of the last such put where one has, and
\* leaves the store as it was.
GetReadsWithoutWriting ==
  [][\A tenant_id \in AdapterTenants, log_id \in AdapterLogs :
       Get(tenant_id, log_id) =>
         /\ probe'.exists = (<<tenant_id, log_id>> \in DOMAIN probe.puts)
         /\ probe'.exists => probe'.doc = probe.puts[<<tenant_id, log_id>>]
         /\ store' = store]_vars
\* a read that finds the document of the second put to its key, in a store
\* where another key, never put to, reads None
GetReadsWithoutWritingWitness ==
  /\ probe.op = "get"
  /\ probe.exists
  /\ probe.doc.original_text = TextPlain
  /\ probe.doc = probe.puts[<<probe.tenant_id, probe.log_id>>]
  /\ \E tenant_id \in AdapterTenants, log_id \in AdapterLogs :
       /\ <<tenant_id, log_id>> \notin DOMAIN probe.puts
       /\ ~get_processed_log(store, tenant_id, log_id).exists

\* C13: a call of save_processed_log makes one call of set(); when that
\* call raises, the caller gets the store error, with no second attempt, and
\* the store is as it was before the call.
FailFastSave ==
  /\ probe.op = "save" => probe.attempts = 1
  /\ (probe.op = "save" /\ probe.fault) =>
       (~probe.ok /\ store = probe.before)
  /\ (probe.op = "save" /\ ~probe.fault) => probe.ok
FailFastSaveWitness ==
  /\ probe.op = "save"
  /\ probe.fault
  /\ ~probe.ok
  /\ store # <<>>

\* C14: a delivery suspended in its delay holds nothing another delivery
\* needs.  While one sleeps, an envelope the transport may deliver can be
\* pushed into a free slot, a sleeper whose time is up can run on to its
\* store write and answer, and the time that passes counts for every
\* sleeper at once; so a short message pushed after a long one is answered
\* first.
SleepDoesNotBlock ==
  /\ [](\A d \in Slots :
          slots[d].pc = "sleeping" =>
            /\ \A e \in pending :
                 (\E c \in Slots : slots[c].pc = "idle") => ENABLED Push(e)
            /\ \A c \in Slots \ {d} :
                 (slots[c].pc = "sleeping" /\ slots[c].remaining = 0) =>
                   ENABLED Wake(c, FALSE, FALSE)
            /\ \A c \in Slots \ {d} : slots[c].pc = "done" => ENABLED Complete(c))
  /\ [][Tick =>
          /\ now' > now
          /\ \A d \in Slots :
               slots[d].pc = "sleeping" =>
                 /\ slots'[d].pc = "sleeping"
                 /\ slots'[d].remaining = slots[d].remaining - (now' - now)]_vars
\* m1 (8 characters) was pushed first, into slot 1, and is still asleep; m3
\* (2 characters), pushed after it into slot 2, is stored and acknowledged
SleepDoesNotBlockWitness ==
  /\ slots[1].pc = "sleeping"
  /\ slots[1].env = 1
  /\ slots[1].remaining = 6
  /\ now = 2
  /\ slots[2].pc = "idle"
  /\ 3 \in acked
  /\ KeyDoc(3).exists
  /\ \E r \in runs : r.env = 3 /\ r.at = 2
  /\ ~KeyDoc(1).exists

ConfiguredDelay ==
  IF probe.arg.none THEN probe.settings_delay ELSE probe.arg.v

\* C16: a processor configured with the delay 0, by the constructor
\* argument or by the settings value, sleeps 0 for every text.
ZeroDelayIsLegal ==
  (probe.op = "process" /\ ConfiguredDelay = 0) => probe.slept = 0

\* C17: a delivery whose request deadline passed before its processing was
\* over writes no record (its handler never gets to the store write) and is
\* not acknowledged, and every document in the store is a whole record.
DeadlineWritesNothing ==
  /\ \A d \in Slots :
       slots[d].expired =>
         /\ \A i \in DOMAIN slots[d].steps : slots[d].steps[i] # "stored"
         /\ ~IsSuccess(slots[d].response)
  /\ \A path \in DOMAIN store : DOMAIN store[path] = SixFields

\* C18: a message serialised by the gateway's to_pubsub_data, carried as
\* base64 and decoded by the worker's decode_data and InternalMessage comes
\* out with the tenant_id, log_id, text, source and ingested_at it went in
\* with.
RoundTripDecode ==
  probe.op = "roundtrip" =>
    /\ probe.decoded.ok
    /\ probe.decoded.v.tenant_id = probe.message.tenant_id
    /\ probe.decoded.v.log_id = probe.message.log_id
    /\ probe.decoded.v.text = probe.message.text
    /\ probe.decoded.v.source = probe.message.source
    /\ probe.decoded.v.ingested_at = probe.message.ingested_at
\* a message with a quote and a non-ASCII character in its log_id, a "/" in
\* its tenant_id and an emoji as its text has made the trip
RoundTripDecodeWitness ==
  /\ probe.op = "roundtrip"
  /\ probe.decoded.ok
  /\ probe.decoded.v.text = <<128512>>
  /\ probe.decoded.v.log_id = <<34, 233>>
  /\ probe.decoded.v.tenant_id = TenantAX
  /\ probe.decoded.v.ingested_at = IngestedAtMicros

\* The five sensitive shapes as the specification words them, anywhere in a
\* text (no word boundary is asked for): 10 digits grouped 3-3-4 and 7
\* digits grouped 3-4 with an optional separator, a parenthesised area code
\* followed by 7 digits, an email address (local part, "@", domain, ".", two
\* or more letters), and ddd-dd-dddd.
ShapePhone10 ==
  <<C(Digit, 3, 3), C(PhoneSep, 0, 1), C(Digit, 3, 3), C(PhoneSep, 0, 1),
    C(Digit, 4, 4)>>
ShapePhone7 == <<C(Digit, 3, 3), C(PhoneSep, 0, 1), C(Digit, 4, 4)>>
ShapeParens ==
  <<C({40}, 1, 1), C(Digit, 3, 3), C({41}, 1, 1), C(Space, 0, -1),
    C(Digit, 3, 3), C(PhoneSep, 0, 1), C(Digit, 4, 4)>>
ShapeEmail ==
  <<C(EmailLocal, 1, -1), C({64}, 1, 1), C(EmailDomain, 1, -1), C({46}, 1, 1),
    C(Upper \cup Lower, 2, -1)>>
ShapeSsn ==
  <<C(Digit, 3, 3), C({45}, 1, 1), C(Digit, 2, 2), C({45}, 1, 1), C(Digit, 4, 4)>>
Shapes == {ShapePhone10, ShapePhone7, ShapeParens, ShapeEmail, ShapeSsn}
ContainsShape(text) ==
  \E shape \in Shapes : \E pos \in 1..Len(text) : MatchFrom(shape, 1, text, pos) # 0

\* C19: a text in which none of the five sensitive shapes occurs comes out
\* of redact_sensitive_data as it went in.
NoFalsePositives ==
  (probe.op = "redact" /\ ~ContainsShape(probe.text)) => probe.out = probe.text

\* the text has its core as a token of its own: what is before it is empty
\* or ends with a space, what is after it is empty or begins with a space
OwnToken ==
  /\ probe.pre = <<>> \/ probe.pre[Len(probe.pre)] = 32
  /\ probe.post = <<>> \/ probe.post[1] = 32

\* C20: a text holding an instance of one of the five shapes as a token of
\* its own comes out with the marker [REDACTED] in it and without the
\* instance.
ShapesRedacted ==
  (probe.op = "redact" /\ probe.core \in RedactCores /\ probe.core.kind # "none"
   /\ OwnToken) =>
    /\ Contains(probe.out, REDACTED)
    /\ ~Contains(probe.out, probe.core.s)

\* the number of occurrences of sub in s, counted from left to right without
\* overlap
RECURSIVE CountFrom(_, _, _)
CountFrom(s, sub, pos) ==
  IF pos + Len(sub) - 1 > Len(s) THEN 0
  ELSE IF SubSeq(s, pos, pos + Len(sub) - 1) = sub
       THEN 1 + CountFrom(s, sub, pos + Len(sub))
       ELSE CountFrom(s, sub, pos + 1)
Count(s, sub) == CountFrom(s, sub, 1)
\* no digit stands right before or right after the core, so that a core of
\* ten digits is a number of ten digits in the text
NoDigitBeside ==
  /\ probe.pre = <<>> \/ probe.pre[Len(probe.pre)] \notin Digit
  /\ probe.post = <<>> \/ probe.post[1] \notin Digit

\* C21: a 10-digit phone number grouped 3-3-4 (separated by "-", ".", a
\* space or nothing) comes out as one marker [REDACTED], with what was
\* around it unchanged and none of its digits left.
Phone10Whole ==
  (probe.op = "redact" /\ probe.core.kind = "phone10" /\ NoDigitBeside) =>
    /\ Count(probe.out, REDACTED) = 1
    /\ probe.out = probe.pre \o REDACTED \o probe.post

\* C22: a phone number with a parenthesised area code comes out as one
\* marker [REDACTED], with what was around it unchanged and nothing of it,
\* the area code included, left.
ParensWhole ==
  (probe.op = "redact" /\ probe.core.kind = "parens" /\ NoDigitBeside) =>
    /\ Count(probe.out, REDACTED) = 1
    /\ probe.out = probe.pre \o REDACTED \o probe.post
    /\ ~Contains(probe.out, <<40, 53, 53, 53, 41>>)

\* C23: a text of k items of different shapes with an ordinary word between
\* them comes out with exactly k markers [REDACTED] and with none of the k
\* items in it.
EachItemRedacted ==
  (probe.op = "redact" /\ probe.core.kind = "multi") =>
    /\ Count(probe.out, REDACTED) = Len(probe.items)
    /\ \A i \in 1..Len(probe.items) : ~Contains(probe.out, probe.items[i].s)

\* the handler the Content-Type of request selects
JsonRouted(request) == Contains(lower(request.content_type), ApplicationJsonType)
TextRouted(request) ==
  ~JsonRouted(request) /\ Contains(lower(request.content_type), TextPlainType)

\* C24: POST /ingest answers 202, status "accepted" and the log_id, only
\* when the message has been published: the publish did not fail and the
\* queue holds the one message with that log_id.  When the publish of a
\* request that would be accepted fails, the answer is 500.  A request
\* answered 400 or 422 has published nothing.
AcceptImpliesPublished ==
  probe.op = "response" =>
    /\ probe.response.code = 202 =>
         /\ ~probe.publish_fault
         /\ Len(probe.response.published) = 1
         /\ probe.response.body.status = "accepted"
         /\ probe.response.body.log_id = probe.response.published[1].log_id
    /\ ( /\ probe.publish_fault
         /\ ingest(probe.request, probe.uuid_hex, FALSE).code = 202 )
       => probe.response.code = 500
    /\ probe.response.code \in {400, 422} => probe.response.published = <<>>
AcceptImpliesPublishedWitness ==
  /\ probe.op = "response"
  /\ probe.response.code = 202
  /\ Len(probe.response.published) = 1
  /\ TextRouted(probe.request)

\* a lowercase alphanumeric: str.isalnum() holds and str.lower() keeps it
LowercaseAlnum(c) == isalnum(c) /\ lower(<<c>>) = <<c>>
HexChars == Digit \cup 97..102
\* the request carries a log_id of its own
LogIdSupplied(request) ==
  /\ JsonRouted(request)
  /\ request.json.log_id.t = "str"
  /\ request.json.log_id.s # <<>>

\* C25: every message the gateway publishes has a non-empty tenant_id of
\* lowercase alphanumerics, "_" and "-" only, and a non-empty log_id: the
\* client's when the request supplied one, else "log_" and 16 hexadecimal
\* characters.
PublishedIdentifiers ==
  probe.op = "response" =>
    \A i \in 1..Len(probe.response.published) :
      LET message == probe.response.published[i]
      IN /\ message.tenant_id # <<>>
         /\ \A j \in 1..Len(message.tenant_id) :
              LowercaseAlnum(message.tenant_id[j]) \/ message.tenant_id[j] \in {95, 45}
         /\ message.log_id # <<>>
         /\ IF LogIdSupplied(probe.request)
            THEN message.log_id = probe.request.json.log_id.s
            ELSE /\ Len(message.log_id) = 20
                 /\ SubSeq(message.log_id, 1, 4) = LogPrefix
                 /\ \A j \in 5..20 : message.log_id[j] \in HexChars

\* the text the request carries, when it carries one
RequestText(request) ==
  IF JsonRouted(request) THEN request.json.text.text ELSE request.text
HasText(request) ==
  \/ JsonRouted(request) /\ request.json.kind = "dict" /\ request.json.text.t = "str"
  \/ TextRouted(request) /\ request.utf8

\* C26: every message the gateway publishes has a text of more than 0 and at
\* most 1,000,000 characters, and a request whose text is outside that range
\* is rejected and publishes nothing.
PublishedTextLength ==
  probe.op = "response" =>
    /\ \A i \in 1..Len(probe.response.published) :
         GLen(probe.response.published[i].text) \in 1..text_max_length
    /\ ( /\ HasText(probe.request)
         /\ GLen(RequestText(probe.request)) \notin 1..text_max_length )
       => /\ probe.response.code # 202
          /\ probe.response.published = <<>>

\* C27: a JSON request without tenant_id or without text, or with a
\* tenant_id that holds a character other than alphanumerics, "_" and "-",
\* is answered 422; a text/plain request without X-Tenant-ID, with an
\* invalid X-Tenant-ID or with an empty body is answered 400; a request of
\* any other Content-Type is answered 400.
RejectionCodes ==
  probe.op = "response" =>
    /\ ( /\ JsonRouted(probe.request)
         /\ probe.request.json.kind = "dict"
         /\ \/ probe.request.json.tenant_id.t = "absent"
            \/ probe.request.json.text.t = "absent"
            \/ /\ probe.request.json.tenant_id.t = "str"
               /\ ~TenantCharsOk(probe.request.json.tenant_id.s) )
       => probe.response.code = 422
    /\ ( /\ TextRouted(probe.request)
         /\ \/ probe.request.x_tenant_id.none
            \/ ~TenantCharsOk(probe.request.x_tenant_id.v)
            \/ probe.request.utf8 /\ GLen(probe.request.text) = 0 )
       => probe.response.code = 400
    /\ (~JsonRouted(probe.request) /\ ~TextRouted(probe.request))
       => probe.response.code = 400
RejectionCodesWitness ==
  /\ probe.op = "response"
  /\ JsonRouted(probe.request)
  /\ probe.request.json.kind = "dict"
  /\ probe.request.json.tenant_id.t = "str"
  /\ probe.request.json.tenant_id.s # <<>>
  /\ ~TenantCharsOk(probe.request.json.tenant_id.s)
  /\ probe.request.json.text.t = "str"
  /\ GLen(probe.request.json.text.text) \in 1..text_max_length
  /\ probe.response.code = 422

\* C28: within one delivery the steps come in the order decode, delay,
\* redaction, record, store write, acknowledgment.  A delivery starts its
\* sleep decoded and with the whole delay before it; while it sleeps, its
\* remaining delay goes down by no more than the time that has passed; the
\* step that writes to the store is taken by a sleeper with no delay left,
\* writes the record whose modified_data is the redaction of the whole text,
\* and it alone gives the success response, after the write has succeeded.
StepOrder ==
  [][\A d \in Slots :
       /\ (slots[d].pc = "idle" /\ slots'[d].pc = "sleeping") =>
            /\ slots'[d].steps = <<"received", "decoded">>
            /\ slots'[d].msg = Decoded[slots'[d].env].v
            /\ slots'[d].remaining =
                 Len(slots'[d].msg.text) * processing_delay_per_char
       /\ (slots[d].pc = "sleeping" /\ slots'[d].pc = "sleeping") =>
            /\ slots'[d].remaining >= 0
            /\ now' - now >= slots[d].remaining - slots'[d].remaining
       /\ (store' # store /\ slots'[d] # slots[d]) =>
            /\ slots[d].pc = "sleeping"
            /\ slots[d].remaining = 0
            /\ slots'[d].record.original_text = slots[d].msg.text
            /\ slots'[d].record.modified_data =
                 redact_sensitive_data(slots[d].msg.text)
            /\ store' = DocSet(store,
                               DocPath(slots[d].msg.tenant_id, slots[d].msg.log_id),
                               to_firestore_dict(slots'[d].record))
            /\ slots'[d].steps =
                 <<"received", "decoded", "processed", "stored", "acknowledged">>
       /\ (~IsSuccess(slots[d].response) /\ IsSuccess(slots'[d].response)) =>
            /\ slots[d].steps = <<"received", "decoded">>
            /\ slots[d].remaining = 0
            /\ DocPath(slots[d].msg.tenant_id, slots[d].msg.log_id) \in DOMAIN store'
            /\ store'[DocPath(slots[d].msg.tenant_id, slots[d].msg.log_id)] =
                 to_firestore_dict(slots'[d].record)]_vars
StepOrderWitness ==
  \E c, d \in Slots :
    /\ slots[c].pc = "sleeping" /\ slots[c].remaining > 0
    /\ slots[d].pc = "done"
    /\ slots[d].steps = <<"received", "decoded", "processed", "stored", "acknowledged">>
    /\ slots[d].record.modified_data # slots[d].record.original_text
    /\ now >= Len(slots[d].msg.text) * processing_delay_per_char
    /\ now > 0

\* the steps a delivery may have behind it, by where it stands
Acknowledged == <<"received", "decoded", "processed", "stored", "acknowledged">>
FailedDecode == <<"received", "failed_decode">>
FailedProcess == <<"received", "decoded", "failed_process">>
FailedStore == <<"received", "decoded", "processed", "failed_store">>
Terminal == {"acknowledged", "failed_decode", "failed_process", "failed_store"}
\* slot stands in the state machine, with the outcome that goes with its end
OnPath(slot) ==
  \/ slot.pc = "idle" /\ slot.steps = <<>> /\ slot.response = NoResponse
  \/ slot.pc = "sleeping" /\ slot.steps = <<"received", "decoded">>
       /\ slot.response = NoResponse
  \/ slot.pc = "done" /\ slot.steps = Acknowledged
       /\ slot.response.code = 200 /\ IsSuccess(slot.response)
  \/ slot.pc = "done" /\ slot.steps = FailedDecode
       /\ slot.response.code = 200 /\ slot.response.body.status = "error"
  \/ slot.pc = "done" /\ slot.steps \in {FailedProcess, FailedStore}
       /\ slot.response.code = 500

\* C29: every delivery follows Received, Decoded, Processed, Stored,
\* Acknowledged and ends in one outcome: Acknowledged (200, success),
\* Failed(decode) (200, error) straight from Received, or Failed(process) or
\* Failed(store) (500) after a successful decode.  No step is skipped, the
\* steps of a delivery only grow, and a delivery that has its outcome keeps
\* it until the transport has taken the response.
OneOutcome ==
  [][\A d \in Slots :
       /\ OnPath(slots'[d])
       /\ Cardinality({i \in 1..Len(slots'[d].steps) :
                         slots'[d].steps[i] \in Terminal})
            = IF slots'[d].pc = "done" THEN 1 ELSE 0
       /\ slots'[d].steps \in {FailedProcess, FailedStore, Acknowledged} =>
            Decoded[slots'[d].env].ok
       /\ slots'[d].steps = FailedDecode => ~Decoded[slots'[d].env].ok
       /\ slots[d].pc # "done" =>
            /\ Len(slots[d].steps) <= Len(slots'[d].steps)
            /\ SubSeq(slots'[d].steps, 1, Len(slots[d].steps)) = slots[d].steps
       /\ slots[d].pc = "done" =>
            \/ slots'[d] = slots[d]
            \/ slots'[d] = IdleSlot]_vars
OneOutcomeWitness ==
  \E c, d \in Slots :
    /\ slots[c].pc = "done" /\ slots[c].steps = FailedDecode
    /\ slots[d].pc = "done" /\ slots[d].steps = FailedProcess
    /\ \E e \in acked : Decoded[e].ok

\* C30: the body of a success response is {status: "success", message_id,
\* tenant_id, log_id} with the message_id of the envelope and the tenant_id
\* and log_id of its decoded message, and the step that gives it has written
\* that delivery's record at the path of that tenant_id and log_id.
SuccessBody ==
  [][\A d \in Slots :
       IsSuccess(slots'[d].response) =>
         /\ DOMAIN slots'[d].response.body =
              {"status", "message_id", "tenant_id", "log_id"}
         /\ slots'[d].response.body.message_id =
              Envelopes[slots'[d].env].message_id
         /\ slots'[d].response.body.tenant_id = Decoded[slots'[d].env].v.tenant_id
         /\ slots'[d].response.body.log_id = Decoded[slots'[d].env].v.log_id
         /\ ~IsSuccess(slots[d].response) =>
              /\ slots'[d].record.message_id = slots'[d].response.body.message_id
              /\ store' = DocSet(store,
                                 DocPath(slots'[d].response.body.tenant_id,
                                         slots'[d].response.body.log_id),
                                 to_firestore_dict(slots'[d].record))]_vars
SuccessBodyWitness ==
  \E d \in Slots :
    /\ slots[d].pc = "done"
    /\ IsSuccess(slots[d].response)
    /\ slots[d].response.body.tenant_id = TenantB
    /\ DocPath(TenantB, slots[d].response.body.log_id) \in DOMAIN store
    /\ \E p \in DOMAIN store : p # DocPath(TenantB, slots[d].response.body.log_id)

\* C31: the store write is a suspension point.  While a delivery is inside
\* its store write, an envelope the transport may deliver can be pushed into
\* a free slot, another sleeper whose time is up can wake, and a delivery
\* that has its response can complete, before the write returns.
StoreWriteSuspends ==
  [](\A d \in Slots :
       slots[d].pc = "writing" =>
         /\ \A e \in pending :
              (\E c \in Slots : slots[c].pc = "idle") => ENABLED LoopPush(e)
         /\ \A c \in Slots \ {d} :
              (slots[c].pc = "sleeping" /\ slots[c].remaining = 0) =>
                ENABLED WriteBegin(c, FALSE, FALSE)
         /\ \A c \in Slots \ {d} :
              slots[c].pc = "done" => ENABLED LoopComplete(c))

\* the data model of the message: tenant_id non-empty, of lowercase
\* alphanumerics, "_" and "-"; log_id non-empty; text of 1 to 1,000,000
\* characters; source json_upload or text_upload
SatisfiesDataModel(message) ==
  /\ message.tenant_id # <<>>
  /\ \A j \in 1..Len(message.tenant_id) :
       LowercaseAlnum(message.tenant_id[j]) \/ message.tenant_id[j] \in {95, 45}
  /\ message.log_id # <<>>
  /\ Len(message.text) \in 1..text_max_length
  /\ message.source \in {SourceJson, SourceText}

\* C32: every message that passes the decode step satisfies the data model;
\* a payload that violates it is a decode failure, answered "error", and is
\* neither processed nor stored.
DecodedSatisfiesDataModel ==
  \A d \in Slots :
    /\ slots[d].pc \in {"sleeping", "done"} /\ Decoded[slots[d].env].ok =>
         SatisfiesDataModel(slots[d].msg)
    /\ ( /\ slots[d].pc = "done"
         /\ decode_data(Envelopes[slots[d].env].data).ok
         /\ InternalMessage(decode_data(Envelopes[slots[d].env].data).v).ok
         /\ ~SatisfiesDataModel(
               InternalMessage(decode_data(Envelopes[slots[d].env].data).v).v) )
       => slots[d].steps = FailedDecode

\* valid base64: characters of the alphabet only, closed by at most two "=",
\* in all a multiple of four characters
ValidBase64(s) ==
  /\ Len(s) % 4 = 0
  /\ \E pads \in 0..2 :
       /\ pads <= Len(s)
       /\ \A i \in 1..Len(s) :
            IF i <= Len(s) - pads THEN IsB64(s[i]) ELSE s[i] = 61

\* C33: decode_data fails for every data string that is not valid base64,
\* so that none is decoded into a message.
InvalidBase64Fails ==
  (probe.op = "decoded" /\ ~ValidBase64(probe.data)) =>
    /\ ~probe.decoded
    /\ ~probe.message.ok

\* C34: redaction is idempotent on its own outputs: a second application
\* to the output of the first rewrites nothing.
RedactIdempotent ==
  probe.op = "redact" => redact_sensitive_data(probe.out) = probe.out

\* the number a decimal numeral stands for
RECURSIVE DecimalValue(_)
DecimalValue(s) ==
  IF Len(s) = 0 THEN 0
  ELSE 10 * DecimalValue(SubSeq(s, 1, Len(s) - 1)) + (s[Len(s)] - 48)

\* C35: processed_at is the time of the store write.  From the moment a
\* delivery has taken its processed_at until its store write has returned,
\* the only step is that return: no other delivery moves and the clock
\* stands.  The document a write leaves carries the time of the write, and
\* the processed_at of the document at a path never goes down.
ProcessedAtMonotone ==
  [][/\ \A d \in Slots :
          slots[d].pc = "writing" =>
            /\ slots'[d].pc = "done"
            /\ \A c \in Slots \ {d} : slots'[c] = slots[c]
            /\ now' = now
            /\ slots'[d].record.processed_at = slots[d].record.processed_at
            /\ UNCHANGED <<queue, pending, acked>>
     /\ \A d \in Slots :
          (store' # store /\ slots'[d] # slots[d]) =>
            store'[DocPath(slots[d].msg.tenant_id, slots[d].msg.log_id)].processed_at
              = isoformat(now')
     /\ \A path \in DOMAIN store :
          /\ path \in DOMAIN store'
          /\ DecimalValue(store'[path].processed_at)
               >= DecimalValue(store[path].processed_at)]_vars
\* the document at a path has been overwritten at a later time by another
\* delivery for the same key, and carries the time of that write
ProcessedAtMonotoneWitness ==
  \E r1, r2 \in runs :
    /\ r1.env # r2.env
    /\ r1.at < r2.at
    /\ Decoded[r1.env].v.tenant_id = Decoded[r2.env].v.tenant_id
    /\ Decoded[r1.env].v.log_id = Decoded[r2.env].v.log_id
    /\ DecimalValue(store[DocPath(Decoded[r2.env].v.tenant_id,
                                  Decoded[r2.env].v.log_id)].processed_at) = r2.at

\* a record without its time
Timeless(record) == [record EXCEPT !.processed_at = 0]
\* what a delivery of its own gives: the handler run on the message id and
\* the decoded payload alone, at time 0, on an empty store, with nothing else
\* in flight, its processing and its store write failing or not
OwnOutcome(message_id, decoded, proc_fault, store_fault) ==
  IF ~decoded.ok
  THEN [response |-> DecodeFailureResponse(message_id), record |-> NoRecord,
        store |-> <<>>]
  ELSE LET r == process_message_resume(
                  [process_message_start(0, message_id, decoded)
                     EXCEPT !.remaining = 0],
                  <<>>, 0, proc_fault, store_fault)
       IN [response |-> r.slot.response, record |-> r.slot.record,
           store |-> r.store]

\* C36: the response to a delivery and the record it writes, its
\* processed_at apart, are what the delivery of its own gives: they are
\* determined by the message id, the decoded payload and whether its own
\* processing and store write fail, whatever the store holds, whatever else
\* is in flight and whatever else the push request carries.
Noninterference ==
  [][\A d \in Slots :
       /\ \A e \in EnvIds :
            (Push(e) /\ slots'[d] # slots[d]) =>
              /\ slots'[d].message_id = Envelopes[e].message_id
              /\ slots'[d].msg = Decoded[e].v
              /\ slots'[d].response =
                   IF Decoded[e].ok THEN NoResponse
                   ELSE OwnOutcome(Envelopes[e].message_id, Decoded[e],
                                   FALSE, FALSE).response
       /\ \A proc_fault, store_fault \in BOOLEAN :
            Wake(d, proc_fault, store_fault) =>
              LET own == OwnOutcome(slots[d].message_id, Decoded[slots[d].env],
                                    proc_fault, store_fault)
                  path == DocPath(slots[d].msg.tenant_id, slots[d].msg.log_id)
              IN /\ slots'[d].response = own.response
                 /\ Timeless(slots'[d].record) = Timeless(own.record)
                 /\ IF path \in DOMAIN own.store
                    THEN /\ path \in DOMAIN store'
                         /\ [store'[path] EXCEPT !.processed_at = isoformat(0)]
                              = own.store[path]
                         /\ \A q \in DOMAIN store : q # path => store'[q] = store[q]
                    ELSE store' = store]_vars
\* m4 has been stored at the key that held m1's document and is answered
\* "success", while another delivery is asleep in the other slot
NoninterferenceWitness ==
  \E c, d \in Slots :
    /\ slots[d].pc = "done"
    /\ slots[d].env = 4
    /\ IsSuccess(slots[d].response)
    /\ \E r \in runs : r.env = 1 /\ r.at < now
    /\ slots[c].pc = "sleeping"
    /\ slots[c].env # 4

=============================================================================
